---- MODULE Spec2Model ----
(***************************************************************************)
(* A model of the ir2dis bot: the result service's post step               *)
(* (src/src/iracing/service.py), the repository's dedupe / watermark       *)
(* tables (src/src/storage/repository.py), the iRacing client's            *)
(* link-then-download fetch with retry (src/src/iracing/api.py and         *)
(* src/src/iracing/client.py), the polling engine                          *)
(* (src/src/poller/engine.py), the last-result service                     *)
(* (src/src/iracing/services/last_result.py), the /lastrace command        *)
(* (src/src/discord_bot/commands/lastrace.py), the embed renderers and     *)
(* the configuration loader (src/src/config/loader.py).                    *)
(*                                                                         *)
(* Coroutines are cut at their await points: one action is the code that   *)
(* runs between two awaits.  The specifications share the variables:       *)
(*   Spec        - sequential process_and_post_results calls, with raising *)
(*                 sends and repository calls and with process stops       *)
(*   SpecOverlap - two overlapping process_and_post_results calls          *)
(*   SpecFetch   - one _get_json_via_download call against any upstream    *)
(*   SpecSem     - several concurrent fetches on one client                *)
(*   SpecStall   - the poll cycle's fetch next to two command handlers'    *)
(*   SpecPoll    - the polling loop                                        *)
(*   SpecRepo    - mark_posted calls on the posted_results table           *)
(*   SpecTables  - calls on the tracked_drivers and channel_config tables  *)
(*   SpecLast    - one fetch_last_official_result call next to the poller  *)
(*   SpecEmbed   - the three embed renderers                               *)
(*   SpecCmd     - one /lastrace interaction                               *)
(*   SpecEntry   - one /lastrace interaction or one direct call of         *)
(*                 fetch_last_official_result                              *)
(*   SpecFetchLive - SpecFetch with the coroutine's steps weakly fair      *)
(*   SpecSlots   - concurrent fetches with a caller that uses up its       *)
(*                 attempts, the coroutines' steps weakly fair             *)
(*   SpecConfig  - one load_config call                                    *)
(*   SpecEngine  - the PollingEngine.start loop and stop() calls           *)
(*   SpecUntrack - /track and /untrack next to stored watermarks           *)
(***************************************************************************)
EXTENDS Integers, Sequences, FiniteSets, TLC

\* ---------------------------------------------------------------- bounds
NumGuilds == 2
MaxRecords == 2
MaxCalls == 2
MaxCrashes == 1
MaxErrors == 1
NumFetchTasks == 5
MaxFaults == 1
MaxCycles == 2
MaxTicks == 2
MaxMarks == 3
\* Repository calls on the tracked_drivers and channel_config tables.
MaxOps == 4
\* Sessions in one search result handed to fetch_last_official_result.
MaxSessions == 2
\* The requests the upstream fails while the semaphore is watched.
MaxSlotFaults == 5

\* The poll cycles one start() loop begins, the awaits one cycle is observed
\* at, and the stop() calls.
MaxEngineCycles == 3
MaxAwaits == 2
MaxStops == 2

\* The highest finish position rendered.
MaxFinishPos == 12

\* The ids of the model: two sessions, two drivers, NumGuilds guilds.
Subsessions == {1, 2}
Custs == {1, 2}
Guilds == 1..NumGuilds
\* Two callers of process_and_post_results (two overlapping poll cycles).
Invokers == {1, 2}

VARIABLES
    \* --- repository tables (sqlite file: survive a process stop)
    posted_results,   \* set of rows <<subsession_id, cust_id, guild_id TEXT>>
    channel_config,   \* function: guild_id TEXT -> channel_id TEXT
    \* --- process_and_post_results invocations
    records,          \* the list handed to every invocation
    inv,              \* per invoker: the coroutine's locals and position
    sends,            \* messages delivered to Discord, per <<sub, cust, guild>>
    calls,            \* invocations started so far
    crashes,          \* process stops so far
    errors,           \* sends / repository calls that raised so far
    \* --- IRacingClient._get_json_via_download
    impl,             \* which client class: "api" (api.py) or "client" (client.py)
    task,             \* per caller: the coroutine's locals and position
    stats,            \* per observed caller: what its call did (history)
    sem,              \* free slots of self._semaphore
    inflight,         \* data-API GETs sent and not yet answered
    faults,           \* upstream answers other than a well-formed 200 so far
    \* --- repository tables used by the poll cycle
    tracked_drivers,  \* cust_ids in added_at order
    poll_state,       \* function: cust_id -> last_poll_ts
    \* --- the poll cycle
    clock,            \* the wall clock, epoch seconds
    cycleKind,        \* "engine": PollingEngine._poll_once;
                      \* "service": ResultService.find_new_finishes_for_tracked
    poll,             \* the cycle's locals and position
    built,            \* FinishRecords built by the current cycle: <<sub, cust>>
    wmBefore,         \* poll_state when the current cycle began
    cycles,           \* cycles begun so far
    hist,             \* what the current cycle has done so far (history)
    slept,            \* the asyncio.sleep(self.interval) calls of start(), by
                      \* the branch that made them: "try" or "except"
    \* --- the posted_results table row by row
    db_rows,          \* the rows in rowid order
    marked,           \* triples handed to mark_posted so far (history)
    marks,            \* mark_posted calls so far
    \* --- the tracked_drivers and channel_config tables row by row
    tracked_rows,     \* rows [cust_id, display_name, added_at], rowid order
    channel_rows,     \* rows [guild_id TEXT, channel_id TEXT], rowid order
    now_ts,           \* CURRENT_TIMESTAMP of the database, in seconds
    lastOp,           \* per cust_id: the last call made for it (history)
    lastSet,          \* per guild: the channel of the last set call (history)
    ops,              \* repository calls made on the two tables so far
    lastRemove,       \* the last remove_tracked_driver call: its number, its
                      \* cust_id and what it returned (history)
    \* --- fetch_last_official_result and the /lastrace command
    last,             \* the coroutine's locals and position, and what it
                      \* saw of each session (history)
    cmd,              \* the command handler's locals and position, the
                      \* defers and follow-ups it sent (history)
    rendered,         \* per renderer: the last <<finish_pos, colour>>
    \* --- load_config, and the PollingEngine.start task of main.py
    conf,             \* load_config: the environment and data/config.json
                      \* it is called with, and the Config it returned
    engine            \* PollingEngine: self.running, the position of the
                      \* start() coroutine, the cycles begun and in
                      \* progress and the stop() calls (history)

postVars == <<posted_results, channel_config, records, inv, sends, calls,
              crashes, errors>>
fetchVars == <<impl, task, stats, sem, inflight, faults>>
pollVars == <<tracked_drivers, poll_state, clock, cycleKind, poll, built,
              wmBefore, cycles, hist, slept>>
repoVars == <<db_rows, marked, marks>>
tableVars == <<tracked_rows, channel_rows, now_ts, lastOp, lastSet, ops,
               lastRemove>>
cmdVars == <<last, cmd, rendered>>
mainVars == <<conf, engine>>

\* ------------------------------------------------------- str() and int()
\* Python's str(n) for n >= 0, as the sequence of its decimal digits, and
\* int(s) back.  The repository stores guild and channel ids as TEXT.
RECURSIVE Str(_)
Str(n) == IF n < 10 THEN <<n>> ELSE Append(Str(n \div 10), n % 10)

RECURSIVE ParseInt(_)
ParseInt(s) == IF Len(s) = 0 THEN 0
               ELSE 10 * ParseInt(SubSeq(s, 1, Len(s) - 1)) + s[Len(s)]

\* The channel a guild is configured with in the model: distinct per guild.
ChannelOf(g) == 10 + g

\* ------------------------------------------------------------ repository
\* Repository.was_posted: SELECT 1 ... WHERE subsession_id, cust_id, guild_id
was_posted(rows, subsession_id, cust_id, guild_id) ==
    <<subsession_id, cust_id, Str(guild_id)>> \in rows

\* Mutant of mark_posted: the connection is closed without conn.commit(), so
\* the inserted row is rolled back.
mark_posted_no_commit(rows, subsession_id, cust_id, guild_id) == rows

\* Repository.mark_posted: INSERT OR REPLACE on the primary key
\* (subsession_id, cust_id, guild_id); the table after the call.
mark_posted(rows, subsession_id, cust_id, guild_id) ==
    rows \cup {<<subsession_id, cust_id, Str(guild_id)>>}

\* Repository.get_channel_for_guild: int(row[0]) or None (modelled as 0,
\* which the caller's `if channel_id:` treats the same way).
get_channel_for_guild(cfg, guild_id) ==
    IF Str(guild_id) \in DOMAIN cfg THEN ParseInt(cfg[Str(guild_id)]) ELSE 0

\* A set of naturals as the ascending list.
RECURSIVE SortedSeq(_)
SortedSeq(S) ==
    IF S = {} THEN <<>>
    ELSE LET m == CHOOSE x \in S : \A y \in S : x <= y
         IN <<m>> \o SortedSeq(S \ {m})

\* Repository.list_guilds_with_channel: called by the service, defined by
\* neither Repository class; per the design it lists the guilds that have
\* a configured channel.
list_guilds_with_channel(cfg) ==
    SortedSeq({g \in Guilds : Str(g) \in DOMAIN cfg})

\* ------------------------------------- the posted_results table, by row
\* CREATE TABLE posted_results (subsession_id INTEGER, cust_id INTEGER,
\*   guild_id TEXT, posted_at ..., PRIMARY KEY (subsession_id, cust_id, guild_id))
PrimaryKey(row) == <<row.subsession_id, row.cust_id, row.guild_id>>

\* Mutant of InsertOrReplace: a plain INSERT into a table without the
\* primary key.
InsertOrReplace_plain_insert(tbl, row) == Append(tbl, row)

\* INSERT OR REPLACE: the rows that conflict with the new row on the primary
\* key are deleted, then the new row is inserted.
InsertOrReplace(tbl, row) ==
    SelectSeq(tbl, LAMBDA r : PrimaryKey(r) # PrimaryKey(row)) \o <<row>>

\* The primary keys stored in a table: what the set of rows of
\* posted_results in the other specifications stands for.
Keys(tbl) == {PrimaryKey(tbl[i]) : i \in DOMAIN tbl}

\* await repo.mark_posted(subsession_id, cust_id, guild_id) on a table that
\* is kept row by row, each row with its posted_at stamp, next to the same
\* call on the set of rows.
RepoMarkPosted(subsession_id, cust_id, guild_id) ==
    /\ marks < MaxMarks
    /\ marks' = marks + 1
    /\ marked' = marked \cup {<<subsession_id, cust_id, guild_id>>}
    /\ db_rows' = InsertOrReplace(db_rows,
                     [subsession_id |-> subsession_id, cust_id |-> cust_id,
                      guild_id |-> Str(guild_id), posted_at |-> marks + 1])
    /\ posted_results' = mark_posted(posted_results, subsession_id, cust_id,
                                     guild_id)
    /\ UNCHANGED <<channel_config, records, inv, sends, calls, crashes, errors>>
    /\ UNCHANGED <<fetchVars, pollVars, tableVars, cmdVars,
                   mainVars>>

\* The table is empty and no call is made.
RepoAtRest ==
    /\ db_rows = <<>>
    /\ marked = {}
    /\ marks = 0

NextRepo ==
    \E s \in Subsessions, c \in Custs, g \in Guilds : RepoMarkPosted(s, c, g)

\* The tracked_drivers and channel_config tables are empty and no call is
\* made on them.
TablesAtRest ==
    /\ tracked_rows = <<>>
    /\ channel_rows = <<>>
    /\ now_ts = 0
    /\ lastOp = [c \in Custs |-> "none"]
    /\ lastSet = [g \in Guilds |-> 0]
    /\ ops = 0
    /\ lastRemove = [call |-> 0, cust_id |-> 0, returned |-> FALSE]

\* The locals of fetch_last_official_result and of the /lastrace handler
\* before a call, and no embed rendered yet.
\* A call's outcome: nothing yet, the value None, or an exception.
NoResult == [kind |-> "none"]
NoneResult == [kind |-> "None"]
Raised(exc) == [kind |-> "raised", exc |-> exc]

IdleLast == [pc |-> "idle", cust_id |-> 0, upstream |-> [kind |-> "none"],
             sessions |-> <<>>, i |-> 0, result |-> NoResult, scanned |-> <<>>,
             requests |-> 0]
IdleCmd == [pc |-> "idle", customer_id |-> 0, has_api |-> FALSE,
            result |-> NoResult, defers |-> 0, followups |-> <<>>]
NoRender == [r \in {"builder", "bot", "service"} |-> <<>>]

\* load_config before it is called and a PollingEngine before its start()
\* task is created (engine.py:19-20: running False, task None).
NoConf == [pc |-> "off", env |-> <<>>, file |-> [kind |-> "absent"],
           config |-> <<>>]
NewEngine == [pc |-> "off", running |-> FALSE, begun |-> 0, active |-> 0,
              awaits |-> 0, via |-> "none", stops |-> 0, stopAt |-> -1]

\* load_config is not called and no engine task exists.
MainAtRest ==
    /\ conf = NoConf
    /\ engine = NewEngine

\* No command is handled and nothing is rendered.
CmdAtRest ==
    /\ last = [IdleLast EXCEPT !.pc = "off"]
    /\ cmd = [IdleCmd EXCEPT !.pc = "off"]
    /\ rendered = NoRender

\* Every part of the program that a specification does not exercise.
OthersAtRest == RepoAtRest /\ TablesAtRest /\ CmdAtRest /\ MainAtRest

\* ------------------- the tracked_drivers and channel_config tables, by row
\* CREATE TABLE tracked_drivers (cust_id INTEGER PRIMARY KEY, display_name,
\*   added_at TEXT NOT NULL DEFAULT CURRENT_TIMESTAMP)
\* CREATE TABLE channel_config (guild_id TEXT PRIMARY KEY, channel_id TEXT)
DisplayNames == {"A", "B"}
ChannelIds == {ChannelOf(g) : g \in Guilds}

\* The rows of a table without those that have the given value in a column.
Without(tbl, col, val) == SelectSeq(tbl, LAMBDA r : r[col] # val)

\* Mutant of add_tracked_driver: a plain INSERT into a table without the
\* primary key.
add_tracked_driver_plain_insert(tbl, cust_id, display_name, ts) ==
    Append(tbl, [cust_id |-> cust_id, display_name |-> display_name,
                 added_at |-> ts])

\* Repository.add_tracked_driver: INSERT OR REPLACE on the primary key
\* cust_id; the row that conflicts is deleted and the new row, stamped
\* CURRENT_TIMESTAMP, is inserted.  The table after the call.
add_tracked_driver(tbl, cust_id, display_name, ts) ==
    Append(Without(tbl, "cust_id", cust_id),
           [cust_id |-> cust_id, display_name |-> display_name,
            added_at |-> ts])

\* Repository.remove_tracked_driver: DELETE ... WHERE cust_id = ?; the table
\* after the call.
remove_tracked_driver(tbl, cust_id) == Without(tbl, "cust_id", cust_id)

\* conn.total_changes of the call's own fresh connection
\* (storage/repository.py:86-92), cursor.rowcount of the DELETE
\* (iracing/repository.py:29-33): the rows the DELETE removed.
total_changes(tbl, cust_id) ==
    Len(tbl) - Len(remove_tracked_driver(tbl, cust_id))

\* Mutant of remove_tracked_driver_returns: `>= 0` for `> 0`.
remove_tracked_driver_returns_ge(tbl, cust_id) ==
    total_changes(tbl, cust_id) >= 0

\* What remove_tracked_driver returns: rows_affected > 0.
remove_tracked_driver_returns(tbl, cust_id) ==
    total_changes(tbl, cust_id) > 0

\* ORDER BY added_at: the rows by ascending stamp, rows of one stamp in
\* rowid order.
RECURSIVE OrderByAddedAt(_)
OrderByAddedAt(tbl) ==
    IF tbl = <<>> THEN <<>>
    ELSE LET i == CHOOSE k \in DOMAIN tbl :
                    \A j \in DOMAIN tbl :
                        \/ tbl[k].added_at < tbl[j].added_at
                        \/ tbl[k].added_at = tbl[j].added_at /\ k <= j
             rest == [j \in 1..(Len(tbl) - 1) |->
                         IF j < i THEN tbl[j] ELSE tbl[j + 1]]
         IN <<tbl[i]>> \o OrderByAddedAt(rest)

\* Repository.list_tracked: SELECT cust_id, display_name FROM tracked_drivers
\* ORDER BY added_at, as the list of (cust_id, display_name) tuples.
list_tracked(tbl) ==
    LET rows == OrderByAddedAt(tbl)
    IN [i \in DOMAIN rows |-> <<rows[i].cust_id, rows[i].display_name>>]

\* Mutant of set_channel_for_guild: a plain INSERT into a table without the
\* primary key.
set_channel_for_guild_plain_insert(tbl, guild_id, channel_id) ==
    Append(tbl, [guild_id |-> Str(guild_id), channel_id |-> Str(channel_id)])

\* Repository.set_channel_for_guild: INSERT OR REPLACE on the primary key
\* guild_id, both ids stored as str(...).  The table after the call.
set_channel_for_guild(tbl, guild_id, channel_id) ==
    Append(Without(tbl, "guild_id", Str(guild_id)),
           [guild_id |-> Str(guild_id), channel_id |-> Str(channel_id)])

\* Repository.get_channel_for_guild on the rows: SELECT channel_id ... WHERE
\* guild_id = str(guild_id), fetchone(); int(row[0]), or None (as 0).
get_channel_for_guild_rows(tbl, guild_id) ==
    LET hits == SelectSeq(tbl, LAMBDA r : r.guild_id = Str(guild_id))
    IN IF hits = <<>> THEN 0 ELSE ParseInt(hits[1].channel_id)

\* await repo.add_tracked_driver(cust_id, display_name)
AddTrackedDriver(cust_id, display_name) ==
    /\ ops < MaxOps
    /\ ops' = ops + 1
    /\ tracked_rows' = add_tracked_driver(tracked_rows, cust_id, display_name,
                                          now_ts)
    /\ lastOp' = [lastOp EXCEPT ![cust_id] = "add"]
    /\ UNCHANGED <<channel_rows, now_ts, lastSet, lastRemove>>
    /\ UNCHANGED <<postVars, fetchVars, pollVars, repoVars, cmdVars,
                   mainVars>>

\* Mutant of RemoveTrackedDriver: the DELETE cascades to the driver's
\* poll_state row.
RemoveTrackedDriver_cascade(cust_id) ==
    /\ ops < MaxOps
    /\ ops' = ops + 1
    /\ tracked_rows' = remove_tracked_driver(tracked_rows, cust_id)
    /\ poll_state' = [c \in DOMAIN poll_state \ {cust_id} |-> poll_state[c]]
    /\ lastOp' = [lastOp EXCEPT ![cust_id] = "remove"]
    /\ lastRemove' = [call |-> ops + 1, cust_id |-> cust_id,
                      returned |-> remove_tracked_driver_returns(tracked_rows,
                                                                 cust_id)]
    /\ UNCHANGED <<channel_rows, now_ts, lastSet>>
    /\ UNCHANGED <<tracked_drivers, clock, cycleKind, poll, built, wmBefore,
                   cycles, hist, slept>>
    /\ UNCHANGED <<postVars, fetchVars, repoVars, cmdVars, mainVars>>

\* await repo.remove_tracked_driver(cust_id)
RemoveTrackedDriver(cust_id) ==
    /\ ops < MaxOps
    /\ ops' = ops + 1
    /\ tracked_rows' = remove_tracked_driver(tracked_rows, cust_id)
    /\ lastOp' = [lastOp EXCEPT ![cust_id] = "remove"]
    /\ lastRemove' = [call |-> ops + 1, cust_id |-> cust_id,
                      returned |-> remove_tracked_driver_returns(tracked_rows,
                                                                 cust_id)]
    /\ UNCHANGED <<channel_rows, now_ts, lastSet>>
    /\ UNCHANGED <<postVars, fetchVars, pollVars, repoVars, cmdVars,
                   mainVars>>

\* await repo.set_channel_for_guild(guild_id, channel_id)
SetChannelForGuild(guild_id, channel_id) ==
    /\ ops < MaxOps
    /\ ops' = ops + 1
    /\ channel_rows' = set_channel_for_guild(channel_rows, guild_id, channel_id)
    /\ lastSet' = [lastSet EXCEPT ![guild_id] = channel_id]
    /\ UNCHANGED <<tracked_rows, now_ts, lastOp, lastRemove>>
    /\ UNCHANGED <<postVars, fetchVars, pollVars, repoVars, cmdVars,
                   mainVars>>

\* A second passes between two calls.
TableTick ==
    /\ now_ts < ops
    /\ now_ts' = now_ts + 1
    /\ UNCHANGED <<tracked_rows, channel_rows, lastOp, lastSet, ops,
                   lastRemove>>
    /\ UNCHANGED <<postVars, fetchVars, pollVars, repoVars, cmdVars,
                   mainVars>>

NextTables ==
    \/ \E c \in Custs, n \in DisplayNames : AddTrackedDriver(c, n)
    \/ \E c \in Custs : RemoveTrackedDriver(c)
    \/ \E g \in Guilds, ch \in ChannelIds : SetChannelForGuild(g, ch)
    \/ TableTick

\* ------------------------------------------- process_and_post_results
IdleInv == [pc |-> "idle", guild_ids |-> <<>>, ri |-> 0, gi |-> 0,
            channel_id |-> 0, posted_count |-> 0, sent |-> 0, callNo |-> 0,
            before |-> {}, failed |-> {}]

Running(p) == inv[p].pc \notin {"idle", "done"}

\* before and failed are history: the posted_results rows when the
\* invocation began, and the triples whose send raised in it.

\* The (record, guild) pair the loops are at.
CurRecord(p) == records[inv[p].ri]
CurGuild(p) == inv[p].guild_ids[inv[p].gi]
CurTriple(p) == <<CurRecord(p)[1], CurRecord(p)[2], CurGuild(p)>>

\* Loop headers of `for record in records` / `for guild_id in guild_ids`:
\* the locals after the inner loop moves to the next guild.
NextGuild(l) ==
    IF l.gi < Len(l.guild_ids)
    THEN [l EXCEPT !.gi = l.gi + 1, !.pc = "check"]
    ELSE IF l.ri < Len(records) /\ Len(l.guild_ids) > 0
         THEN [l EXCEPT !.ri = l.ri + 1, !.gi = 1, !.pc = "check"]
         ELSE [l EXCEPT !.pc = "done"]

\* The locals after the outer loop moves to the next record (the outer
\* `except Exception` of a record ends that record's guild loop).
NextRecord(l) ==
    IF l.ri < Len(records) /\ Len(l.guild_ids) > 0
    THEN [l EXCEPT !.ri = l.ri + 1, !.gi = 1, !.pc = "check"]
    ELSE [l EXCEPT !.pc = "done"]

\* A caller invokes process_and_post_results(records, bot).
PostStart(p) ==
    /\ inv[p].pc \in {"idle", "done"}
    /\ calls < MaxCalls
    /\ calls' = calls + 1
    /\ inv' = [inv EXCEPT ![p] = [IdleInv EXCEPT !.pc = "list",
                                                 !.callNo = calls + 1,
                                                 !.before = posted_results]]
    /\ UNCHANGED <<posted_results, channel_config, records, sends, crashes, errors>>
    /\ UNCHANGED <<fetchVars, pollVars, repoVars, tableVars, cmdVars,
                   mainVars>>

\* guild_ids = await self.repo.list_guilds_with_channel()
PostListGuilds(p) ==
    /\ inv[p].pc = "list"
    /\ LET g == list_guilds_with_channel(channel_config)
       IN inv' = [inv EXCEPT ![p] =
                    IF Len(records) > 0 /\ Len(g) > 0
                    THEN [@ EXCEPT !.guild_ids = g, !.ri = 1, !.gi = 1, !.pc = "check"]
                    ELSE [@ EXCEPT !.guild_ids = g, !.pc = "done"]]
    /\ UNCHANGED <<posted_results, channel_config, records, sends, calls,
                   crashes, errors>>
    /\ UNCHANGED <<fetchVars, pollVars, repoVars, tableVars, cmdVars,
                   mainVars>>

\* if not await self.repo.was_posted(record.subsession_id, record.cust_id, guild_id)
PostCheck(p) ==
    /\ inv[p].pc = "check"
    /\ inv' = [inv EXCEPT ![p] =
                 IF was_posted(posted_results, CurRecord(p)[1], CurRecord(p)[2], CurGuild(p))
                 THEN NextGuild(@)
                 ELSE [@ EXCEPT !.pc = "getch"]]
    /\ UNCHANGED <<posted_results, channel_config, records, sends, calls,
                   crashes, errors>>
    /\ UNCHANGED <<fetchVars, pollVars, repoVars, tableVars, cmdVars,
                   mainVars>>

\* was_posted / get_channel_for_guild raises (sqlite error): the record's
\* outer `except Exception` logs it and the loop goes to the next record.
PostReadRaises(p) ==
    /\ inv[p].pc \in {"check", "getch"}
    /\ errors < MaxErrors
    /\ errors' = errors + 1
    /\ inv' = [inv EXCEPT ![p] = NextRecord(@)]
    /\ UNCHANGED <<posted_results, channel_config, records, sends, calls,
                   crashes>>
    /\ UNCHANGED <<fetchVars, pollVars, repoVars, tableVars, cmdVars,
                   mainVars>>

\* Mutant of PostGetChannel: the triple is marked before anything is sent.
PostGetChannel_marks_first(p) ==
    /\ inv[p].pc = "getch"
    /\ LET c == get_channel_for_guild(channel_config, CurGuild(p))
       IN inv' = [inv EXCEPT ![p] =
                    IF c # 0 THEN [@ EXCEPT !.channel_id = c, !.pc = "mark"]
                    ELSE NextGuild([@ EXCEPT !.channel_id = c])]
    /\ UNCHANGED <<posted_results, channel_config, records, sends, calls,
                   crashes, errors>>
    /\ UNCHANGED <<fetchVars, pollVars, repoVars, tableVars, cmdVars,
                   mainVars>>

\* channel_id = await self.repo.get_channel_for_guild(guild_id); if channel_id:
PostGetChannel(p) ==
    /\ inv[p].pc = "getch"
    /\ LET c == get_channel_for_guild(channel_config, CurGuild(p))
       IN inv' = [inv EXCEPT ![p] =
                    IF c # 0 THEN [@ EXCEPT !.channel_id = c, !.pc = "send"]
                    ELSE NextGuild([@ EXCEPT !.channel_id = c])]
    /\ UNCHANGED <<posted_results, channel_config, records, sends, calls,
                   crashes, errors>>
    /\ UNCHANGED <<fetchVars, pollVars, repoVars, tableVars, cmdVars,
                   mainVars>>

\* await self.post_finish_embed(bot, record, channel_id) returns: the
\* message is in the channel.
PostSend(p) ==
    /\ inv[p].pc = "send"
    /\ sends' = [sends EXCEPT ![CurTriple(p)] = @ + 1]
    /\ inv' = [inv EXCEPT ![p] = [@ EXCEPT !.sent = @ + 1, !.pc = "mark"]]
    /\ UNCHANGED <<posted_results, channel_config, records, calls,
                   crashes, errors>>
    /\ UNCHANGED <<fetchVars, pollVars, repoVars, tableVars, cmdVars,
                   mainVars>>

\* Mutant of PostSendRaises: without the inner try block the record's outer
\* `except Exception` catches the failed send and the guild loop is left.
PostSendRaises_leaves_record(p) ==
    /\ inv[p].pc = "send"
    /\ errors < MaxErrors
    /\ errors' = errors + 1
    /\ inv' = [inv EXCEPT ![p] =
                 NextRecord([@ EXCEPT !.failed = @ \cup {CurTriple(p)}])]
    /\ UNCHANGED <<posted_results, channel_config, records, sends, calls,
                   crashes>>
    /\ UNCHANGED <<fetchVars, pollVars, repoVars, tableVars, cmdVars,
                   mainVars>>

\* post_finish_embed raises (fetch_channel / channel.send failed): the inner
\* `except Exception` logs it; nothing was delivered, nothing is marked.
PostSendRaises(p) ==
    /\ inv[p].pc = "send"
    /\ errors < MaxErrors
    /\ errors' = errors + 1
    /\ inv' = [inv EXCEPT ![p] =
                 NextGuild([@ EXCEPT !.failed = @ \cup {CurTriple(p)}])]
    /\ UNCHANGED <<posted_results, channel_config, records, sends, calls,
                   crashes>>
    /\ UNCHANGED <<fetchVars, pollVars, repoVars, tableVars, cmdVars,
                   mainVars>>

\* Mutant of PostMark: posted_count is not incremented.
PostMark_no_count(p) ==
    /\ inv[p].pc = "mark"
    /\ posted_results' = mark_posted(posted_results, CurRecord(p)[1],
                                     CurRecord(p)[2], CurGuild(p))
    /\ inv' = [inv EXCEPT ![p] = NextGuild(@)]
    /\ UNCHANGED <<channel_config, records, sends, calls,
                   crashes, errors>>
    /\ UNCHANGED <<fetchVars, pollVars, repoVars, tableVars, cmdVars,
                   mainVars>>

\* await self.repo.mark_posted(...); posted_count += 1
PostMark(p) ==
    /\ inv[p].pc = "mark"
    /\ posted_results' = mark_posted(posted_results, CurRecord(p)[1],
                                     CurRecord(p)[2], CurGuild(p))
    /\ inv' = [inv EXCEPT ![p] = NextGuild([@ EXCEPT !.posted_count = @ + 1])]
    /\ UNCHANGED <<channel_config, records, sends, calls,
                   crashes, errors>>
    /\ UNCHANGED <<fetchVars, pollVars, repoVars, tableVars, cmdVars,
                   mainVars>>

\* mark_posted raises (sqlite error): caught by the inner `except Exception`.
PostMarkRaises(p) ==
    /\ inv[p].pc = "mark"
    /\ errors < MaxErrors
    /\ errors' = errors + 1
    /\ inv' = [inv EXCEPT ![p] = NextGuild(@)]
    /\ UNCHANGED <<posted_results, channel_config, records, sends, calls,
                   crashes>>
    /\ UNCHANGED <<fetchVars, pollVars, repoVars, tableVars, cmdVars,
                   mainVars>>

\* The process stops (kill, power loss) while an invocation is running: the
\* coroutines are gone, the sqlite file and the Discord channel keep what
\* they have.  After the restart the same records are processed again.
Crash ==
    /\ \E p \in Invokers : Running(p)
    /\ crashes < MaxCrashes
    /\ crashes' = crashes + 1
    /\ inv' = [p \in Invokers |-> IdleInv]
    /\ UNCHANGED <<posted_results, channel_config, records, sends, calls,
                   errors>>
    /\ UNCHANGED <<fetchVars, pollVars, repoVars, tableVars, cmdVars,
                   mainVars>>

\* The record lists of the model: (subsession_id, cust_id) pairs.
RecordPool == {<<1, 1>>, <<2, 1>>, <<1, 2>>}
RecordSeqs ==
    UNION {[1..n -> RecordPool] : n \in 0..MaxRecords}

\* The channel configurations of the model: any set of guilds configured
\* (by /set_channel) before the first invocation.
ChannelConfigs ==
    {[k \in {Str(g) : g \in G} |-> Str(ChannelOf(ParseInt(k)))] : G \in SUBSET Guilds}

InitPost ==
    /\ posted_results = {}
    /\ channel_config \in ChannelConfigs
    /\ records \in RecordSeqs
    /\ inv = [p \in Invokers |-> IdleInv]
    /\ sends = [t \in Subsessions \X Custs \X Guilds |-> 0]
    /\ calls = 0
    /\ crashes = 0
    /\ errors = 0

\* One caller at a time: an invocation starts when the previous one has
\* returned (or the process has restarted).
NextPost ==
    \/ PostStart(1)
    \/ PostListGuilds(1)
    \/ PostCheck(1)
    \/ PostReadRaises(1)
    \/ PostGetChannel(1)
    \/ PostSend(1)
    \/ PostSendRaises(1)
    \/ PostMark(1)
    \/ PostMarkRaises(1)
    \/ Crash

\* Two callers whose awaits interleave freely (two overlapping poll cycles
\* sharing the repository); no crash, nothing raises.
NextOverlap ==
    \/ \E p \in Invokers : PostStart(p)
    \/ \E p \in Invokers : PostListGuilds(p)
    \/ \E p \in Invokers : PostCheck(p)
    \/ \E p \in Invokers : PostGetChannel(p)
    \/ \E p \in Invokers : PostSend(p)
    \/ \E p \in Invokers : PostMark(p)

\* ------------------------------- IRacingClient._get_json_via_download
\* Mutant of max_retries: the loop runs once more.
max_retries_one_more == 5 + 1

\* for attempt in range(max_retries)        (api.py:146, client.py:60)
max_retries == 5
\* Mutant of SemaphoreSlots: one slot, every fetch waits for the one before.
SemaphoreSlots_one == 4 - 3

\* self._semaphore = asyncio.Semaphore(4)   (api.py:84, client.py:21)
SemaphoreSlots == 4

FetchTasks == 1..NumFetchTasks

\* What the upstream can do with one GET:
\*   "ok"      200 and a well-formed body (a link response with 'link')
\*   "auth"    401 / 403            "rate"   429
\*   "server"  5xx                  "other"  any other status (404)
\*   "neterr"  session.get raises aiohttp.ClientError / asyncio.TimeoutError
\*   "badjson" 200 and a body that is not JSON
\*   "nolink"  200 and JSON without a 'link' field (link step only)
LinkAnswers == {"ok", "auth", "rate", "server", "other", "neterr", "badjson", "nolink"}
DownloadAnswers == LinkAnswers \ {"nolink"}

\* The coroutine's locals, and the statistics of one call: loop iterations
\* begun, GETs sent (in all, and link and download GETs of the attempt at
\* hand), re-logins, sleeps, the answers seen and the outcome.
IdleTask == [pc |-> "idle", step |-> "link", attempt |-> 0, relogged |-> FALSE,
             holds |-> FALSE]
NoStats == [attempts |-> 0, linkReqs |-> 0, dlReqs |-> 0, attLink |-> 0,
            attDl |-> 0, logins |-> 0,
            sleeps |-> 0, delays |-> <<>>, seen |-> {}, result |-> "none"]

\* Locals and statistics of caller t as one record, and the two parts of
\* such a record.  Statistics are kept for the callers in DOMAIN stats.
Frame(t) == task[t] @@ (IF t \in DOMAIN stats THEN stats[t] ELSE NoStats)
LocalsOf(m) == [k \in DOMAIN IdleTask |-> m[k]]
StatsOf(m) == [k \in DOMAIN NoStats |-> m[k]]
Stored(t, m) ==
    /\ task' = [task EXCEPT ![t] = LocalsOf(m)]
    /\ stats' = IF t \in DOMAIN stats THEN [stats EXCEPT ![t] = StatsOf(m)]
                ELSE stats

Terminal(t) == task[t].pc \in {"returned", "raised"}

\* self.session.get(...) of the step the locals are at: the request leaves
\* and the coroutine is suspended until the answer.
Sent(l) ==
    IF l.step = "link"
    THEN [l EXCEPT !.pc = "wait", !.linkReqs = @ + 1, !.attLink = @ + 1]
    ELSE [l EXCEPT !.pc = "wait", !.dlReqs = @ + 1, !.attDl = @ + 1]

\* base_delay = 1.0 and the cap of 60 s (api.py:147, 285; client.py:61-62),
\* in tenths of a second, the unit of every delay of the model.
base_delay == 10
max_delay == 600

Min(a, b) == IF a <= b THEN a ELSE b

\* api.py:284-285 / 292-293: base_delay * (2 ** attempt) + (attempt * 0.1),
\* then min(delay, 60).
ApiDelay(attempt) == Min(base_delay * (2 ^ attempt) + attempt, max_delay)

\* client.py:72-74 (and 78-80, 101-103, 110-112):
\* delay = min(base_delay * (2 ** attempt), max_delay), jitter = delay * 0.1,
\* asyncio.sleep(delay + jitter).
ClientDelay(attempt) ==
    LET delay == Min(base_delay * (2 ^ attempt), max_delay)
    IN delay + delay \div 10

\* The delay that the client class at hand sleeps after the given attempt.
Delay(attempt) == IF impl = "api" THEN ApiDelay(attempt) ELSE ClientDelay(attempt)

\* Mutant of Handler: no retry, the first failure is raised.
Handler_no_retry(l, exc) ==
    [l EXCEPT !.pc = "raised", !.holds = FALSE, !.result = exc]

\* The two `except` clauses at the end of an attempt, as the locals they
\* leave.  exc is what the attempt raised: "ClientError" for
\* aiohttp.ClientError / asyncio.TimeoutError, anything else otherwise.
\*   api.py:280-295: the last attempt re-raises a ClientError as it is and
\*   wraps anything else (AuthError included) in APIError; an earlier attempt
\*   sleeps, still inside `async with self._semaphore`.
\*   client.py:98-113: the last attempt re-raises; an earlier one sleeps, the
\*   semaphore already released.
Handler(l, exc) ==
    IF l.attempt = max_retries - 1
    THEN [l EXCEPT !.pc = "raised", !.holds = FALSE,
                   !.result = IF impl = "api" /\ exc # "ClientError"
                              THEN "APIError" ELSE exc]
    ELSE [l EXCEPT !.pc = "sleep", !.sleeps = @ + 1,
                   !.delays = Append(@, Delay(l.attempt)),
                   !.holds = (impl = "api")]

\* Mutant of ApiAfterAnswer: a second re-login and a third GET of the same
\* request before AuthError is raised.
ApiAfterAnswer_two_relogins(l, a) ==
    CASE a = "neterr" -> Handler(l, "ClientError")
      [] a = "auth" ->
            IF ~l.relogged \/ (l.step = "link" /\ l.attLink < 3)
            THEN [l EXCEPT !.pc = "login", !.relogged = TRUE]
            ELSE Handler(l, "AuthError")
      [] a \in {"rate", "server", "other", "badjson", "nolink"} ->
            Handler(l, "APIError")
      [] OTHER ->
            IF l.step = "link"
            THEN Sent([l EXCEPT !.step = "download", !.relogged = FALSE])
            ELSE [l EXCEPT !.pc = "returned", !.holds = FALSE, !.result = "payload"]

\* api.py:175-204 and 232-278: the locals after the answer to a GET.
ApiAfterAnswer(l, a) ==
    CASE a = "neterr" -> Handler(l, "ClientError")
      [] a = "auth" ->
            \* first 401/403 of this request: one re-login, then the same GET
            \* again; a second one raises AuthError inside the try block
            IF ~l.relogged THEN [l EXCEPT !.pc = "login", !.relogged = TRUE]
            ELSE Handler(l, "AuthError")
      [] a \in {"rate", "server", "other", "badjson", "nolink"} ->
            \* _raise_with_body / raise APIError inside the try block
            Handler(l, "APIError")
      [] OTHER ->
            \* the link is followed at once, the slot still held
            IF l.step = "link"
            THEN Sent([l EXCEPT !.step = "download", !.relogged = FALSE])
            ELSE [l EXCEPT !.pc = "returned", !.holds = FALSE, !.result = "payload"]

\* client.py:69-96: the locals after the answer to a GET.
ClientAfterAnswer(l, a) ==
    CASE a \in {"neterr", "badjson"} -> Handler(l, "ClientError")
      [] a \in {"rate", "server"} /\ l.step = "link" ->
            \* sleeps inside `async with self._semaphore`, then `continue`
            [l EXCEPT !.pc = "sleep", !.sleeps = @ + 1,
                      !.delays = Append(@, ClientDelay(l.attempt)),
                      !.holds = TRUE]
      [] a = "nolink" ->
            \* no 'link' in data: "Direct JSON response", returned as it is
            [l EXCEPT !.pc = "returned", !.holds = FALSE, !.result = "link_json"]
      [] a = "ok" ->
            IF l.step = "link"
            THEN [l EXCEPT !.step = "download", !.holds = FALSE, !.pc = "acquire"]
            ELSE [l EXCEPT !.pc = "returned", !.holds = FALSE, !.result = "payload"]
      [] OTHER ->
            \* raise Exception("API request failed ...") / ("Download failed ...")
            Handler(l, "Exception")

AfterAnswer(l, a) ==
    IF impl = "api" THEN ApiAfterAnswer(l, a) ELSE ClientAfterAnswer(l, a)

\* Mutant of Released: a call that raises keeps its slot.
Released_not_on_raise(l, m) ==
    IF l.holds /\ ~m.holds /\ m.pc # "raised" THEN 1 ELSE 0

\* Slots the semaphore gets back when the locals go from l to m.
Released(l, m) == IF l.holds /\ ~m.holds THEN 1 ELSE 0

\* 1 when the locals are suspended on a GET, else 0.
Waiting(l) == IF l.pc = "wait" THEN 1 ELSE 0

\* A caller (poll cycle, command handler) awaits _get_json_via_download.
\* client.py enters its retry loop at once; api.py first waits for the slot.
\* Callers are numbered in the order of their calls.
FetchCall(t) ==
    /\ task[t].pc = "idle"
    /\ \A u \in FetchTasks : u < t => task[u].pc # "idle"
    /\ Stored(t, [Frame(t) EXCEPT !.pc = "acquire",
                      !.attempts = IF impl = "client" THEN 1 ELSE 0])
    /\ UNCHANGED <<impl, sem, inflight, faults>>
    /\ UNCHANGED <<postVars, pollVars, repoVars, tableVars, cmdVars,
                   mainVars>>

\* Mutant of FetchAcquire: the GET is sent without waiting for a free slot.
FetchAcquire_no_wait(t) ==
    /\ task[t].pc = "acquire"
    /\ sem' = sem - 1
    /\ inflight' = inflight + 1
    /\ Stored(t, Sent([Frame(t) EXCEPT !.holds = TRUE,
                      !.attempts = IF impl = "api" THEN 1 ELSE @]))
    /\ UNCHANGED <<impl, faults>>
    /\ UNCHANGED <<postVars, pollVars, repoVars, tableVars, cmdVars,
                   mainVars>>

\* async with self._semaphore: the slot is taken when one is free (api.py:145
\* once per call, client.py:68/89 once per GET) and the coroutine runs on to
\* self.session.get(...): the request leaves.
FetchAcquire(t) ==
    /\ task[t].pc = "acquire"
    /\ sem > 0
    /\ sem' = sem - 1
    /\ inflight' = inflight + 1
    /\ Stored(t, Sent([Frame(t) EXCEPT !.holds = TRUE,
                      !.attempts = IF impl = "api" THEN 1 ELSE @]))
    /\ UNCHANGED <<impl, faults>>
    /\ UNCHANGED <<postVars, pollVars, repoVars, tableVars, cmdVars,
                   mainVars>>

\* The upstream answers (or the connection fails) and the coroutine runs to
\* its next await or to its end.
FetchAnswer(t, a) ==
    /\ task[t].pc = "wait"
    /\ a \in (IF task[t].step = "link" THEN LinkAnswers ELSE DownloadAnswers)
    /\ faults' = IF a = "ok" THEN faults ELSE faults + 1
    /\ LET l == [Frame(t) EXCEPT !.seen = @ \cup {a}]
           m == AfterAnswer(l, a)
       IN /\ Stored(t, m)
          /\ sem' = sem + Released(task[t], m)
          /\ inflight' = inflight - 1 + Waiting(m)
    /\ UNCHANGED impl
    /\ UNCHANGED <<postVars, pollVars, repoVars, tableVars, cmdVars,
                   mainVars>>

\* api.py:179-190 / 236-246: await self.login(force=True) is over, its
\* failure swallowed by `except Exception: pass`; the same GET is sent again.
FetchLogin(t) ==
    /\ task[t].pc = "login"
    /\ Stored(t, Sent([Frame(t) EXCEPT !.logins = @ + 1]))
    /\ inflight' = inflight + 1
    /\ UNCHANGED <<impl, sem, faults>>
    /\ UNCHANGED <<postVars, pollVars, repoVars, tableVars, cmdVars,
                   mainVars>>

\* The locals when asyncio.sleep(delay) returns and the loop goes on.
\*   api.py: the next attempt sends its link GET, the slot still held.
\*   client.py: `continue` leaves the `async with` (the 429/5xx branch gives
\*   the slot back only now); after the fifth attempt the loop is over and
\*   line 115 raises Exception("Max retries exceeded ...").
AfterSleep(l) ==
    IF impl = "api"
    THEN Sent([l EXCEPT !.attempt = @ + 1, !.attempts = @ + 1,
                        !.attLink = 0, !.attDl = 0,
                        !.step = "link", !.relogged = FALSE])
    ELSE IF l.attempt + 1 = max_retries
         THEN [l EXCEPT !.pc = "raised", !.holds = FALSE, !.result = "Exception"]
         ELSE [l EXCEPT !.attempt = @ + 1, !.attempts = @ + 1, !.step = "link",
                        !.attLink = 0, !.attDl = 0,
                        !.holds = FALSE, !.pc = "acquire"]

FetchWake(t) ==
    /\ task[t].pc = "sleep"
    /\ LET m == AfterSleep(Frame(t))
       IN /\ Stored(t, m)
          /\ sem' = sem + Released(task[t], m)
          /\ inflight' = inflight + Waiting(m)
    /\ UNCHANGED <<impl, faults>>
    /\ UNCHANGED <<postVars, pollVars, repoVars, tableVars, cmdVars,
                   mainVars>>

\* No fetch is running and none will: the client as constructed.
FetchAtRest ==
    /\ impl = "api"
    /\ task = [t \in FetchTasks |-> [IdleTask EXCEPT !.pc = "off"]]
    /\ stats = <<>>
    /\ sem = SemaphoreSlots
    /\ inflight = 0
    /\ faults = 0

\* One caller, observed, on either client class, against any upstream.
InitFetch ==
    /\ impl \in {"api", "client"}
    /\ task = [t \in FetchTasks |-> IF t = 1 THEN IdleTask
                                     ELSE [IdleTask EXCEPT !.pc = "off"]]
    /\ stats = [t \in {1} |-> NoStats]
    /\ sem = SemaphoreSlots
    /\ inflight = 0
    /\ faults = 0

\* NumFetchTasks callers on one client.
InitSem ==
    /\ impl \in {"api", "client"}
    /\ task = [t \in FetchTasks |-> IdleTask]
    /\ stats = <<>>
    /\ sem = SemaphoreSlots
    /\ inflight = 0
    /\ faults = 0

NextFetch ==
    \/ \E t \in FetchTasks : FetchCall(t)
    \/ \E t \in FetchTasks : FetchAcquire(t)
    \/ \E t \in FetchTasks : \E a \in LinkAnswers : FetchAnswer(t, a)
    \/ \E t \in FetchTasks : FetchLogin(t)
    \/ \E t \in FetchTasks : FetchWake(t)

\* The same steps against an upstream that answers 200, 401 or 429, with at
\* most MaxFaults failures in all.
SemAnswers == {"ok", "auth", "rate"}

NextSem ==
    \/ \E t \in FetchTasks : FetchCall(t)
    \/ \E t \in FetchTasks : FetchAcquire(t)
    \/ \E t \in FetchTasks : \E a \in SemAnswers :
             (a # "ok" => faults < MaxFaults) /\ FetchAnswer(t, a)
    \/ \E t \in FetchTasks : FetchLogin(t)
    \/ \E t \in FetchTasks : FetchWake(t)

\* The fetch of the poll cycle (caller 1) and the fetches of two command
\* handlers on the same client, against the same upstream.
StallTasks == {1, 2, 3}

NextStall ==
    \/ \E t \in StallTasks : FetchCall(t)
    \/ \E t \in StallTasks : FetchAcquire(t)
    \/ \E t \in StallTasks : \E a \in SemAnswers :
             (a # "ok" => faults < MaxFaults) /\ FetchAnswer(t, a)
    \/ \E t \in StallTasks : FetchLogin(t)
    \/ \E t \in StallTasks : FetchWake(t)

\* NumFetchTasks callers against an upstream that fails up to MaxSlotFaults
\* requests of the first caller with 401 or 429: enough for that call to use
\* up its five attempts while others wait for a slot.
SlotsAnswer(t) ==
    \E a \in SemAnswers :
        /\ a # "ok" => (t = 1 /\ faults < MaxSlotFaults)
        /\ FetchAnswer(t, a)

NextSlots ==
    \/ \E t \in FetchTasks : FetchCall(t)
    \/ \E t \in FetchTasks : FetchAcquire(t)
    \/ \E t \in FetchTasks : SlotsAnswer(t)
    \/ \E t \in FetchTasks : FetchLogin(t)
    \/ \E t \in FetchTasks : FetchWake(t)

PostAtRest ==
    /\ posted_results = {}
    /\ channel_config = <<>>
    /\ records = <<>>
    /\ inv = [p \in Invokers |-> IdleInv]
    /\ sends = [t \in Subsessions \X Custs \X Guilds |-> 0]
    /\ calls = 0
    /\ crashes = 0
    /\ errors = 0

\* ------------------------------------------------------ the poll cycle
\* Mutant of set_last_poll_ts: the statement names only cust_id, so the
\* replaced row takes the column default, last_poll_ts = 0.
set_last_poll_ts_default(ps, cust_id, ts) ==
    [c \in (DOMAIN ps) \cup {cust_id} |-> IF c = cust_id THEN 0 ELSE ps[c]]

\* Repository.set_last_poll_ts: INSERT OR REPLACE keyed by cust_id.
set_last_poll_ts(ps, cust_id, ts) ==
    [c \in (DOMAIN ps) \cup {cust_id} |-> IF c = cust_id THEN ts ELSE ps[c]]

\* None
None == -1

\* Repository.get_last_poll_ts: the stored value, or None without a row.
get_last_poll_ts(ps, cust_id) ==
    IF cust_id \in DOMAIN ps THEN ps[cust_id] ELSE None

\* iracing/repository.py's Repository.get_last_poll_ts: 0 without a row.
get_last_poll_ts_or_zero(ps, cust_id) ==
    IF cust_id \in DOMAIN ps THEN ps[cust_id] ELSE 0

\* Mutant of WindowStart: the default window is 24 hours.
WindowStart_24h(kind, w, now) ==
    IF w = None \/ (kind # "engine" /\ w = 0) THEN now - (24 * 3600) ELSE w

\* The window start of a driver: the watermark, or 48 hours before now.
\*   engine.py:70-72   if last_poll_ts is None: now - 48 * 60 * 60
\*   service.py:56-58  if not last_poll_ts:     now - 48 * 3600
WindowStart(kind, w, now) ==
    IF kind = "engine"
    THEN (IF w = None THEN now - (48 * 60 * 60) ELSE w)
    ELSE (IF w = None \/ w = 0 THEN now - (48 * 3600) ELSE w)

\* The first reading of the clock in the model, and a watermark left in the
\* database by an earlier run of the bot.
StartTime == 48 * 3600 + 1000
StaleWatermark == StartTime - 120

IdlePoll == [pc |-> "idle", now |-> 0, drivers |-> <<>>, di |-> 0,
             last_poll_ts |-> 0, sessions |-> <<>>, si |-> 0]

\* What the current cycle has done so far (history):
\*   searches  the search_recent_sessions calls, <<cust_id, start, end>>
\*   found     the sessions the searches returned, <<subsession_id, cust_id>>
\*   fetched   the get_subsession_results calls and how each ended,
\*             <<subsession_id, cust_id, "row" | "norow" | "raised">>
\*   writes    the set_last_poll_ts calls per driver
\* and, kept from cycle to cycle:
\*   ends      per driver, the `now` of the latest cycle that wrote the
\*             driver's watermark (0: no cycle has yet)
NoHist == [searches |-> {}, found |-> {}, fetched |-> {},
           writes |-> [c \in Custs |-> 0], ends |-> [c \in Custs |-> 0]]

CurDriver == poll.drivers[poll.di]

\* What search_recent_sessions can return from the upstream in the model:
\* a list of sessions without repetition.
SessionLists ==
    {q \in UNION {[1..n -> Subsessions] : n \in 0..2} :
        \A i, j \in DOMAIN q : i # j => q[i] # q[j]}

\* The lists of tracked drivers of the model.
TrackedLists ==
    {q \in UNION {[1..n -> Custs] : n \in 0..2} :
        \A i, j \in DOMAIN q : i # j => q[i] # q[j]}

\* `for cust_id, display_name in tracked_drivers` moves on: the locals when
\* the body of a driver is left.
\*   engine.py: the next driver, or the cycle is over.
\*   service.py: the next driver, or the loop of lines 116-117 that writes the
\*   watermark of every driver.
NextDriver(l) ==
    IF l.di < Len(l.drivers)
    THEN [l EXCEPT !.di = @ + 1, !.sessions = <<>>, !.si = 0, !.pc = "get_wm"]
    ELSE IF cycleKind = "engine"
         THEN [l EXCEPT !.pc = "done"]
         ELSE [l EXCEPT !.di = 1, !.sessions = <<>>, !.si = 0, !.pc = "set_all"]

\* `for session in sessions` moves on: the next session, or after the last
\* one engine.py:153 writes the driver's watermark and service.py goes to
\* the next driver.
NextSession(l) ==
    IF l.si < Len(l.sessions)
    THEN [l EXCEPT !.si = @ + 1]
    ELSE IF cycleKind = "engine"
         THEN [l EXCEPT !.pc = "set_wm"]
         ELSE NextDriver(l)

\* A cycle begins.  engine.py:48 reads now = int(time.time()) first;
\* service.py:45 awaits list_tracked first.  The engine's cycles are the
\* iterations of `while self.running` in PollingEngine.start: the first one,
\* and one after each asyncio.sleep; find_new_finishes_for_tracked is called
\* again when its previous call is over.
PollBegin ==
    /\ \/ poll.pc = "idle"
       \/ cycleKind = "engine" /\ poll.pc = "sleep"
       \/ cycleKind = "service" /\ poll.pc \in {"done", "raised"}
    /\ cycles < MaxCycles
    /\ cycles' = cycles + 1
    /\ wmBefore' = poll_state
    /\ built' = {}
    /\ hist' = [NoHist EXCEPT !.ends = hist.ends]
    /\ poll' = [IdlePoll EXCEPT !.pc = "list",
                  !.now = IF cycleKind = "engine" THEN clock ELSE 0]
    /\ UNCHANGED <<tracked_drivers, poll_state, clock, cycleKind, slept>>
    /\ UNCHANGED <<postVars, fetchVars, repoVars, tableVars, cmdVars,
                   mainVars>>

\* tracked_drivers = await self.repo.list_tracked(); nothing tracked ends
\* the cycle.  service.py:50 reads now here.
PollList ==
    /\ poll.pc = "list"
    /\ LET l == [poll EXCEPT !.drivers = tracked_drivers,
                   !.now = IF cycleKind = "engine" THEN @ ELSE clock]
       IN poll' = IF Len(tracked_drivers) = 0
                  THEN [l EXCEPT !.pc = "done"]
                  ELSE [l EXCEPT !.di = 1, !.pc = "get_wm"]
    /\ UNCHANGED <<tracked_drivers, poll_state, clock, cycleKind, built,
                   wmBefore, cycles, hist, slept>>
    /\ UNCHANGED <<postVars, fetchVars, repoVars, tableVars, cmdVars,
                   mainVars>>

\* list_tracked raises (sqlite error).  engine.py:59 and service.py:45 are
\* inside no try block: the exception leaves the cycle.
PollListRaises ==
    /\ poll.pc = "list"
    /\ poll' = [poll EXCEPT !.pc = "raised"]
    /\ UNCHANGED <<tracked_drivers, poll_state, clock, cycleKind, built,
                   wmBefore, cycles, hist, slept>>
    /\ UNCHANGED <<postVars, fetchVars, repoVars, tableVars, cmdVars,
                   mainVars>>

\* last_poll_ts = await self.repo.get_last_poll_ts(cust_id), with the default.
\* The engine is built on storage/repository.py's Repository; a
\* ResultService is built on either Repository class (main.py:51, the tests).
PollGetWatermark ==
    /\ poll.pc = "get_wm"
    /\ \E w \in {get_last_poll_ts(poll_state, CurDriver)} \cup
                (IF cycleKind = "service"
                 THEN {get_last_poll_ts_or_zero(poll_state, CurDriver)}
                 ELSE {}) :
          poll' = [poll EXCEPT !.pc = "search",
                     !.last_poll_ts = WindowStart(cycleKind, w, poll.now)]
    /\ UNCHANGED <<tracked_drivers, poll_state, clock, cycleKind, built,
                   wmBefore, cycles, hist, slept>>
    /\ UNCHANGED <<postVars, fetchVars, repoVars, tableVars, cmdVars,
                   mainVars>>

\* The history after search_recent_sessions(cust_id, last_poll_ts, now) was
\* called and returned the sessions q.
Searched(h, l, q) ==
    [h EXCEPT !.searches = @ \cup {<<l.drivers[l.di], l.last_poll_ts, l.now>>},
              !.found = @ \cup {<<q[i], l.drivers[l.di]>> : i \in DOMAIN q}]

\* await self.ir.search_recent_sessions(...) on api.py's client.  Its
\* search_recent_sessions is a plain `def` with a keyword-only cust_id that
\* returns a list: engine.py:77 awaits that list and service.py:63 passes
\* cust_id positionally; both raise TypeError, caught by the driver's
\* `except Exception` (engine.py:158, service.py:111).
PollSearchShim ==
    /\ poll.pc = "search"
    /\ impl = "api"
    /\ hist' = Searched(hist, poll, <<>>)
    /\ poll' = NextDriver(poll)
    /\ UNCHANGED <<tracked_drivers, poll_state, clock, cycleKind, built,
                   wmBefore, cycles, slept>>
    /\ UNCHANGED <<postVars, fetchVars, repoVars, tableVars, cmdVars,
                   mainVars>>

\* await self.ir.search_recent_sessions(...) on client.py's client returns
\* the sessions q.  engine.py:85 `if not sessions: continue` leaves the driver
\* at once; with sessions the first one is at hand.
PollSearch(q) ==
    /\ poll.pc = "search"
    /\ impl = "client"
    /\ hist' = Searched(hist, poll, q)
    /\ poll' = IF Len(q) = 0
               THEN NextDriver(poll)
               ELSE [poll EXCEPT !.sessions = q, !.si = 1, !.pc = "results"]
    /\ UNCHANGED <<tracked_drivers, poll_state, clock, cycleKind, built,
                   wmBefore, cycles, slept>>
    /\ UNCHANGED <<postVars, fetchVars, repoVars, tableVars, cmdVars,
                   mainVars>>

\* search_recent_sessions raises (the fetch failed): the driver's
\* `except Exception` logs it and the loop goes to the next driver.
PollSearchRaises ==
    /\ poll.pc = "search"
    /\ impl = "client"
    /\ hist' = Searched(hist, poll, <<>>)
    /\ poll' = NextDriver(poll)
    /\ UNCHANGED <<tracked_drivers, poll_state, clock, cycleKind, built,
                   wmBefore, cycles, slept>>
    /\ UNCHANGED <<postVars, fetchVars, repoVars, tableVars, cmdVars,
                   mainVars>>

\* The history after get_subsession_results(subsession_id) ended with o.
Fetched(h, l, o) ==
    [h EXCEPT !.fetched = @ \cup {<<l.sessions[l.si], l.drivers[l.di], o>>}]

\* Mutant of PollResults: a sheet without a row of the driver raises, and
\* the driver's `except Exception` leaves the driver.
PollResults_norow_raises(hasRow) ==
    /\ poll.pc = "results"
    /\ built' = IF hasRow THEN built \cup {<<poll.sessions[poll.si], CurDriver>>}
                ELSE built
    /\ hist' = Fetched(hist, poll, IF hasRow THEN "row" ELSE "norow")
    /\ poll' = IF hasRow THEN NextSession(poll) ELSE NextDriver(poll)
    /\ UNCHANGED <<tracked_drivers, poll_state, clock, cycleKind, wmBefore,
                   cycles, slept>>
    /\ UNCHANGED <<postVars, fetchVars, repoVars, tableVars, cmdVars,
                   mainVars>>

\* results = await self.ir.get_subsession_results(subsession_id) returns a
\* sheet with (hasRow) or without a row of the driver; with one the
\* FinishRecord is built.
PollResults(hasRow) ==
    /\ poll.pc = "results"
    /\ built' = IF hasRow THEN built \cup {<<poll.sessions[poll.si], CurDriver>>}
                ELSE built
    /\ hist' = Fetched(hist, poll, IF hasRow THEN "row" ELSE "norow")
    /\ poll' = NextSession(poll)
    /\ UNCHANGED <<tracked_drivers, poll_state, clock, cycleKind, wmBefore,
                   cycles, slept>>
    /\ UNCHANGED <<postVars, fetchVars, repoVars, tableVars, cmdVars,
                   mainVars>>

\* get_subsession_results raises.  engine.py:148 catches it per session and
\* goes on with the next session; in service.py only the driver's
\* `except Exception` (line 111) catches it: the driver's other sessions are
\* skipped.
PollResultsRaises ==
    /\ poll.pc = "results"
    /\ hist' = Fetched(hist, poll, "raised")
    /\ poll' = IF cycleKind = "engine" THEN NextSession(poll)
               ELSE NextDriver(poll)
    /\ UNCHANGED <<tracked_drivers, poll_state, clock, cycleKind, built,
                   wmBefore, cycles, slept>>
    /\ UNCHANGED <<postVars, fetchVars, repoVars, tableVars, cmdVars,
                   mainVars>>

\* The history after set_last_poll_ts(cust_id, now) of the driver at hand.
Written(h, l) ==
    [h EXCEPT !.writes[l.drivers[l.di]] = @ + 1,
              !.ends[l.drivers[l.di]] = l.now]

\* Mutant of PollSetWatermark: the time of the write is stored, not the
\* `now` read when the cycle began.
PollSetWatermark_clock ==
    /\ poll.pc = "set_wm"
    /\ poll_state' = set_last_poll_ts(poll_state, CurDriver, clock)
    /\ hist' = Written(hist, poll)
    /\ poll' = NextDriver(poll)
    /\ UNCHANGED <<tracked_drivers, clock, cycleKind, built, wmBefore, cycles,
                   slept>>
    /\ UNCHANGED <<postVars, fetchVars, repoVars, tableVars, cmdVars,
                   mainVars>>

\* engine.py:153  await self.repo.set_last_poll_ts(cust_id, now)
PollSetWatermark ==
    /\ poll.pc = "set_wm"
    /\ poll_state' = set_last_poll_ts(poll_state, CurDriver, poll.now)
    /\ hist' = Written(hist, poll)
    /\ poll' = NextDriver(poll)
    /\ UNCHANGED <<tracked_drivers, clock, cycleKind, built, wmBefore, cycles,
                   slept>>
    /\ UNCHANGED <<postVars, fetchVars, repoVars, tableVars, cmdVars,
                   mainVars>>

\* service.py:116-117  for cust_id, _ in tracked_drivers:
\*                         await self.repo.set_last_poll_ts(cust_id, now)
PollSetAll ==
    /\ poll.pc = "set_all"
    /\ poll_state' = set_last_poll_ts(poll_state, CurDriver, poll.now)
    /\ hist' = Written(hist, poll)
    /\ poll' = IF poll.di < Len(poll.drivers)
               THEN [poll EXCEPT !.di = @ + 1]
               ELSE [poll EXCEPT !.pc = "done"]
    /\ UNCHANGED <<tracked_drivers, clock, cycleKind, built, wmBefore, cycles,
                   slept>>
    /\ UNCHANGED <<postVars, fetchVars, repoVars, tableVars, cmdVars,
                   mainVars>>

\* Mutant of PollSleep: the `except` branch of PollingEngine.start has no
\* sleep, a cycle that raised is followed by the next one at once.
PollSleep_try_only ==
    /\ cycleKind = "engine"
    /\ poll.pc \in {"done", "raised"}
    /\ slept' = IF poll.pc = "done" THEN Append(slept, "try") ELSE slept
    /\ poll' = [poll EXCEPT !.pc = "sleep"]
    /\ UNCHANGED <<tracked_drivers, poll_state, clock, cycleKind, built,
                   wmBefore, cycles, hist>>
    /\ UNCHANGED <<postVars, fetchVars, repoVars, tableVars, cmdVars,
                   mainVars>>

\* PollingEngine.start after _poll_once: await asyncio.sleep(self.interval),
\* at line 30 when the cycle returned and at line 34, in the `except
\* Exception` branch, when it raised.
PollSleep ==
    /\ cycleKind = "engine"
    /\ poll.pc \in {"done", "raised"}
    /\ slept' = Append(slept, IF poll.pc = "done" THEN "try" ELSE "except")
    /\ poll' = [poll EXCEPT !.pc = "sleep"]
    /\ UNCHANGED <<tracked_drivers, poll_state, clock, cycleKind, built,
                   wmBefore, cycles, hist>>
    /\ UNCHANGED <<postVars, fetchVars, repoVars, tableVars, cmdVars,
                   mainVars>>

\* Time passes; the wall clock does not go backwards.  A cycle reads the
\* clock once, when it begins (engine.py:48) or after list_tracked
\* (service.py:50): the time that passes during its later awaits is the
\* same to it as time that passes after it.
Tick ==
    /\ poll.pc \in {"idle", "list", "done", "raised", "sleep"}
    /\ clock < StartTime + MaxTicks
    /\ clock' = clock + 1
    /\ UNCHANGED <<tracked_drivers, poll_state, cycleKind, poll, built,
                   wmBefore, cycles, hist, slept>>
    /\ UNCHANGED <<postVars, fetchVars, repoVars, tableVars, cmdVars,
                   mainVars>>

\* No poll cycle is running and none will.
PollAtRest ==
    /\ tracked_drivers = <<>>
    /\ poll_state = <<>>
    /\ clock = StartTime
    /\ cycleKind = "engine"
    /\ poll = [IdlePoll EXCEPT !.pc = "off"]
    /\ built = {}
    /\ wmBefore = <<>>
    /\ cycles = 0
    /\ hist = NoHist
    /\ slept = <<>>

\* The posted_results rows an earlier run can have left: none, or the
\* result of driver 1 in session 1 posted to every guild.
PostedBefore ==
    {{}, {<<1, 1, Str(g)>> : g \in Guilds}}

\* The channel configurations the poll cycle starts with: no guild or
\* every guild configured.
PollChannelConfigs ==
    {cfg \in ChannelConfigs : DOMAIN cfg \in {{}, {Str(g) : g \in Guilds}}}

\* The bot starts: either client class behind either cycle, some drivers
\* tracked and some guilds configured by earlier commands, and for any of
\* the drivers a watermark left by an earlier run.
InitPoll ==
    /\ posted_results \in PostedBefore
    /\ channel_config \in PollChannelConfigs
    /\ records = <<>>
    /\ inv = [p \in Invokers |-> IdleInv]
    /\ sends = [t \in Subsessions \X Custs \X Guilds |-> 0]
    /\ calls = 0
    /\ crashes = 0
    /\ errors = 0
    /\ impl \in {"api", "client"}
    /\ task = [t \in FetchTasks |-> [IdleTask EXCEPT !.pc = "off"]]
    /\ stats = <<>>
    /\ sem = SemaphoreSlots
    /\ inflight = 0
    /\ faults = 0
    /\ RepoAtRest
    /\ TablesAtRest
    /\ CmdAtRest
    /\ MainAtRest
    /\ tracked_drivers \in TrackedLists
    /\ poll_state \in UNION {[D -> {StaleWatermark}] : D \in SUBSET Custs}
    /\ clock = StartTime
    /\ cycleKind \in {"engine", "service"}
    /\ poll = IdlePoll
    /\ built = {}
    /\ wmBefore = <<>>
    /\ cycles = 0
    /\ hist = NoHist
    /\ slept = <<>>

NextPoll ==
    \/ PollBegin
    \/ PollList
    \/ PollListRaises
    \/ PollGetWatermark
    \/ PollSearchShim
    \/ \E q \in SessionLists : PollSearch(q)
    \/ PollSearchRaises
    \/ \E hasRow \in BOOLEAN : PollResults(hasRow)
    \/ PollResultsRaises
    \/ PollSetWatermark
    \/ PollSetAll
    \/ PollSleep
    \/ Tick

\* --------------------------------- IRacingClient.search_recent_sessions
\* The rows of a search: each a session with its subsession_id and its
\* 'official' flag.
SessionRows == [subsession_id : Subsessions, official : BOOLEAN]
LastSessionLists ==
    UNION {[1..n -> SessionRows] : n \in 0..MaxSessions}

\* What the stats/member_recent_races endpoint delivers: a dict with a
\* 'races' list, or a list.
Payloads ==
    {[kind |-> "dict", rows |-> q] : q \in LastSessionLists}
        \cup {[kind |-> "list", rows |-> q] : q \in LastSessionLists}

\* api.py:300-301: stats_member_recent_races is an `async def`; called
\* without await it hands back a coroutine object that, if awaited, would
\* yield the endpoint's payload.
stats_member_recent_races(upstream) == [kind |-> "coroutine", yields |-> upstream]

\* api.py:342-347: payload.get("races", []) for a dict, the payload for a
\* list, [] for anything else.
RowsOfPayload(payload) ==
    IF payload.kind \in {"dict", "list"} THEN payload.rows ELSE <<>>

\* api.py:348-349: rows[:limit] when limit is not None (None = -1 is not
\* >= 0 either).
Truncated(rows, limit) ==
    IF limit >= 0 /\ limit < Len(rows) THEN SubSeq(rows, 1, limit) ELSE rows

\* api.py:311-350, IRacingClient.search_recent_sessions(cust_id=..., limit):
\* a plain `def`; `payload = self.stats_member_recent_races(cust_id) or {}`
\* is the coroutine object (truthy), which is neither dict nor list.
search_recent_sessions(upstream, limit) ==
    Truncated(RowsOfPayload(stats_member_recent_races(upstream)), limit)

\* ------------------------------------------- fetch_last_official_result
CustomerIds == {0} \cup Custs

\* What get_subsession_results gives for one session: a sheet with a row of
\* the driver, a sheet without one, or an exception.
SheetOutcomes == {"row", "norow", "raised"}

\* Mutant of Qualifies: the 'official' flag of the session is not looked at.
Qualifies_any_row(session, outcome) == outcome = "row"

\* last_result.py:74-76 (and 160): `if driver_result:` and
\* `if session.get("official"):`.
Qualifies(session, outcome) == outcome = "row" /\ session.official

\* last_result.py:80-97: the FinishRecord built from the session and the
\* driver's row.
FinishRecordOf(session, cust_id) ==
    [kind |-> "FinishRecord", subsession_id |-> session.subsession_id,
     cust_id |-> cust_id, official |-> session.official]

\* Mutant of LastCall: without the `if cust_id <= 0` guard.
LastCall_no_guard(cust_id) ==
    /\ last.pc = "idle"
    /\ last' = [last EXCEPT !.pc = "search", !.cust_id = cust_id]
    /\ UNCHANGED <<cmd, rendered>>
    /\ UNCHANGED <<postVars, fetchVars, pollVars, repoVars, tableVars,
                   mainVars>>

\* await fetch_last_official_result(api, cust_id) begins (last_result.py:31-43).
LastCall(cust_id) ==
    /\ last.pc = "idle"
    /\ last' = IF cust_id <= 0
               THEN [last EXCEPT !.pc = "returned", !.cust_id = cust_id,
                                 !.result = NoneResult]
               ELSE [last EXCEPT !.pc = "search", !.cust_id = cust_id]
    /\ UNCHANGED <<cmd, rendered>>
    /\ UNCHANGED <<postVars, fetchVars, pollVars, repoVars, tableVars,
                   mainVars>>

\* last_result.py:45-49 on api.py's client: search_recent_sessions returns a
\* list, `await <list>` raises TypeError, which line 115 catches and line
\* 117 raises again.
LastSearchShim(upstream) ==
    /\ last.pc = "search"
    /\ impl = "api"
    /\ last' = [last EXCEPT !.pc = "raised", !.result = Raised("TypeError"),
                   !.upstream = upstream,
                   !.sessions = search_recent_sessions(upstream, None)]
    /\ UNCHANGED <<cmd, rendered>>
    /\ UNCHANGED <<postVars, fetchVars, pollVars, repoVars, tableVars,
                   mainVars>>

\* last_result.py:45-58 on client.py's client: the search returns the
\* sessions q; `if not sessions: return None`, else the scan starts at the
\* last one.
LastSearch(q) ==
    /\ last.pc = "search"
    /\ impl = "client"
    /\ last' = IF q = <<>>
               THEN [last EXCEPT !.pc = "returned", !.result = NoneResult,
                                 !.requests = @ + 1,
                                 !.upstream = [kind |-> "list", rows |-> q]]
               ELSE [last EXCEPT !.pc = "results", !.sessions = q,
                                 !.i = Len(q), !.requests = @ + 1,
                                 !.upstream = [kind |-> "list", rows |-> q]]
    /\ UNCHANGED <<cmd, rendered>>
    /\ UNCHANGED <<postVars, fetchVars, pollVars, repoVars, tableVars,
                   mainVars>>

\* last_result.py:112-114: the search raises APIError, raised again.
LastSearchRaises ==
    /\ last.pc = "search"
    /\ impl = "client"
    /\ last' = [last EXCEPT !.pc = "raised", !.result = Raised("APIError"),
                            !.requests = @ + 1]
    /\ UNCHANGED <<cmd, rendered>>
    /\ UNCHANGED <<postVars, fetchVars, pollVars, repoVars, tableVars,
                   mainVars>>

\* Mutant of LastResults: a record that is returned is also marked posted.
LastResults_marks(outcome) ==
    /\ last.pc = "results"
    /\ outcome \in SheetOutcomes
    /\ LET session == last.sessions[last.i]
           seen == [last EXCEPT !.scanned = @ @@ (last.i :> outcome),
                                !.requests = @ + 1]
       IN /\ last' = IF Qualifies(session, outcome)
                     THEN [seen EXCEPT !.pc = "returned",
                              !.result = FinishRecordOf(session, last.cust_id)]
                     ELSE IF last.i = 1
                          THEN [seen EXCEPT !.pc = "returned", !.result = NoneResult]
                          ELSE [seen EXCEPT !.i = @ - 1]
          /\ posted_results' =
                IF Qualifies(session, outcome)
                THEN mark_posted(posted_results, session.subsession_id,
                                 last.cust_id, 1)
                ELSE posted_results
    /\ UNCHANGED <<cmd, rendered>>
    /\ UNCHANGED <<channel_config, records, inv, sends, calls, crashes, errors>>
    /\ UNCHANGED <<fetchVars, pollVars, repoVars, tableVars,
                   mainVars>>

\* last_result.py:58-110: await api.get_subsession_results(subsession_id)
\* for the session at hand is over.  A qualifying session ends the call with
\* its record; a sheet without the driver's row, a session that is not
\* official and an exception (line 105, `continue`) move on to the session
\* before; after the first session of the list the call returns None.
LastResults(outcome) ==
    /\ last.pc = "results"
    /\ outcome \in SheetOutcomes
    /\ LET session == last.sessions[last.i]
           seen == [last EXCEPT !.scanned = @ @@ (last.i :> outcome),
                                !.requests = @ + 1]
       IN last' = IF Qualifies(session, outcome)
                  THEN [seen EXCEPT !.pc = "returned",
                           !.result = FinishRecordOf(session, last.cust_id)]
                  ELSE IF last.i = 1
                       THEN [seen EXCEPT !.pc = "returned", !.result = NoneResult]
                       ELSE [seen EXCEPT !.i = @ - 1]
    /\ UNCHANGED <<cmd, rendered>>
    /\ UNCHANGED <<postVars, fetchVars, pollVars, repoVars, tableVars,
                   mainVars>>

\* The poller, running next to the call, marks the result of driver 1 in
\* session 1 as posted to a guild.
LastPollerMarks(guild_id) ==
    /\ last.pc # "off"
    /\ RepoMarkPosted(1, 1, guild_id)

\* One call on either client class, the repository as an earlier run left it.
InitLast ==
    /\ posted_results \in PostedBefore
    /\ channel_config = <<>>
    /\ records = <<>>
    /\ inv = [p \in Invokers |-> IdleInv]
    /\ sends = [t \in Subsessions \X Custs \X Guilds |-> 0]
    /\ calls = 0
    /\ crashes = 0
    /\ errors = 0
    /\ impl \in {"api", "client"}
    /\ task = [t \in FetchTasks |-> [IdleTask EXCEPT !.pc = "off"]]
    /\ stats = <<>>
    /\ sem = SemaphoreSlots
    /\ inflight = 0
    /\ faults = 0
    /\ PollAtRest
    /\ RepoAtRest
    /\ TablesAtRest
    /\ last = IdleLast
    /\ cmd = [IdleCmd EXCEPT !.pc = "off"]
    /\ rendered = NoRender
    /\ MainAtRest

NextLast ==
    \/ \E c \in CustomerIds : LastCall(c)
    \/ \E u \in Payloads : LastSearchShim(u)
    \/ \E q \in LastSessionLists : LastSearch(q)
    \/ LastSearchRaises
    \/ \E o \in SheetOutcomes : LastResults(o)
    \/ \E g \in Guilds : LastPollerMarks(g)

\* --------------------------------------------------- the embed colour
\* The finish positions rendered: the boundaries 3 | 4 and 10 | 11, values
\* on either side, zero and negative ones.
FinishPositions == -2..MaxFinishPos

\* Mutant of build_race_result_embed_color: the second threshold is `< 10`.
build_race_result_embed_color_lt10(finish_pos) ==
    IF finish_pos <= 3 THEN "green"
    ELSE IF finish_pos < 10 THEN "orange"
    ELSE "red"

\* race_result.py:22-27
build_race_result_embed_color(finish_pos) ==
    IF finish_pos <= 3 THEN "green"
    ELSE IF finish_pos <= 10 THEN "orange"
    ELSE "red"

\* discord_bot/client.py:42-47, IR2DISBot.post_finish_embed
bot_post_finish_embed_color(finish_pos) ==
    IF finish_pos <= 3 THEN "green"
    ELSE IF finish_pos <= 10 THEN "orange"
    ELSE "red"

\* service.py:163, ResultService.post_finish_embed
service_post_finish_embed_color(finish_pos) ==
    IF finish_pos <= 3 THEN "green"
    ELSE (IF finish_pos <= 10 THEN "orange" ELSE "red")

\* race_result.py:14-56: the embed of a FinishRecord; any other object has
\* no finish_pos and the first line raises AttributeError.
build_race_result_embed(record) ==
    IF record.kind = "FinishRecord"
    THEN [kind |-> "embed", subsession_id |-> record.subsession_id,
          cust_id |-> record.cust_id, finish_pos |-> record.finish_pos,
          color |-> build_race_result_embed_color(record.finish_pos)]
    ELSE Raised("AttributeError")

\* One of the three renderers builds the embed of a record with the given
\* finish position.
RenderBuilder(finish_pos) ==
    /\ rendered' = [rendered EXCEPT !["builder"] =
                       <<finish_pos, build_race_result_embed_color(finish_pos)>>]
    /\ UNCHANGED <<last, cmd>>
    /\ UNCHANGED <<postVars, fetchVars, pollVars, repoVars, tableVars,
                   mainVars>>

RenderBot(finish_pos) ==
    /\ rendered' = [rendered EXCEPT !["bot"] =
                       <<finish_pos, bot_post_finish_embed_color(finish_pos)>>]
    /\ UNCHANGED <<last, cmd>>
    /\ UNCHANGED <<postVars, fetchVars, pollVars, repoVars, tableVars,
                   mainVars>>

RenderService(finish_pos) ==
    /\ rendered' = [rendered EXCEPT !["service"] =
                       <<finish_pos, service_post_finish_embed_color(finish_pos)>>]
    /\ UNCHANGED <<last, cmd>>
    /\ UNCHANGED <<postVars, fetchVars, pollVars, repoVars, tableVars,
                   mainVars>>

InitEmbed == PostAtRest /\ FetchAtRest /\ PollAtRest /\ OthersAtRest

NextEmbed ==
    \/ \E fp \in FinishPositions : RenderBuilder(fp)
    \/ \E fp \in FinishPositions : RenderBot(fp)
    \/ \E fp \in FinishPositions : RenderService(fp)

\* ------------------------------------------------- the /lastrace command
\* What fetch_last_official_result would hand to a caller that awaits it for
\* the given customer: None, an exception, or a FinishRecord.
YieldsFor(customer_id) ==
    {NoneResult, Raised("APIError"), Raised("TypeError")}
        \cup {[kind |-> "FinishRecord", subsession_id |-> s,
               cust_id |-> customer_id, official |-> TRUE, finish_pos |-> fp] :
                  s \in Subsessions, fp \in FinishPositions}

Text(t) == [kind |-> "text", text |-> t]

\* lastrace.py:30-32: the interaction arrives and is deferred.  has_api is
\* whether the bot carries the client as `ir`.
CmdInvoke(customer_id, has_api) ==
    /\ cmd.pc = "idle"
    /\ cmd' = [cmd EXCEPT !.pc = "deferred", !.customer_id = customer_id,
                          !.has_api = has_api, !.defers = @ + 1]
    /\ UNCHANGED <<last, rendered>>
    /\ UNCHANGED <<postVars, fetchVars, pollVars, repoVars, tableVars,
                   mainVars>>

\* lastrace.py:34-48: the two early follow-ups, else
\* asyncio.to_thread(fetch_last_official_result, api, customer_id) is
\* awaited.  The thread calls the `async def` as a plain function: the call
\* runs none of its body and returns a coroutine object, which would yield y
\* if it were awaited.
CmdFetch(y) ==
    /\ cmd.pc = "deferred"
    /\ y \in YieldsFor(cmd.customer_id)
    /\ cmd' = IF cmd.customer_id <= 0
              THEN [cmd EXCEPT !.pc = "done",
                       !.followups = Append(@, Text("Invalid customer_id"))]
              ELSE IF ~cmd.has_api
              THEN [cmd EXCEPT !.pc = "done",
                       !.followups = Append(@, Text("client is not available"))]
              ELSE [cmd EXCEPT !.pc = "thread",
                       !.result = [kind |-> "coroutine", yields |-> y]]
    /\ UNCHANGED <<last, rendered>>
    /\ UNCHANGED <<postVars, fetchVars, pollVars, repoVars, tableVars,
                   mainVars>>

\* lastrace.py:58-69: to_thread is over.  `if not result` sends the
\* "no race" text for None; build_race_result_embed(result) gives the embed
\* that is sent, or raises and the "Failed to render" text is sent.
CmdReply ==
    /\ cmd.pc = "thread"
    /\ LET embed == build_race_result_embed(cmd.result)
       IN cmd' = [cmd EXCEPT !.pc = "done",
                     !.followups = Append(@,
                         IF cmd.result.kind = "None"
                         THEN Text("No completed official race found")
                         ELSE IF embed.kind = "raised"
                         THEN Text("Failed to render race result.")
                         ELSE embed)]
    /\ UNCHANGED <<last, rendered>>
    /\ UNCHANGED <<postVars, fetchVars, pollVars, repoVars, tableVars,
                   mainVars>>

InitCmd ==
    /\ PostAtRest /\ FetchAtRest /\ PollAtRest /\ RepoAtRest /\ TablesAtRest
    /\ last = [IdleLast EXCEPT !.pc = "off"]
    /\ cmd = IdleCmd
    /\ rendered = NoRender
    /\ MainAtRest

NextCmd ==
    \/ \E c \in CustomerIds, a \in BOOLEAN : CmdInvoke(c, a)
    \/ \E c \in CustomerIds : \E y \in YieldsFor(c) : CmdFetch(y)
    \/ CmdReply

\* Either entry point is used once: a /lastrace interaction, or a direct
\* call of fetch_last_official_result, on either client class.
InitEntry ==
    /\ PostAtRest /\ PollAtRest /\ RepoAtRest /\ TablesAtRest
    /\ impl \in {"api", "client"}
    /\ task = [t \in FetchTasks |-> [IdleTask EXCEPT !.pc = "off"]]
    /\ stats = <<>>
    /\ sem = SemaphoreSlots
    /\ inflight = 0
    /\ faults = 0
    /\ last = IdleLast
    /\ cmd = IdleCmd
    /\ rendered = NoRender
    /\ MainAtRest

\* The interaction arrives while no direct call has been made.
EntryCmdInvoke(customer_id, has_api) ==
    /\ last.pc = "idle"
    /\ CmdInvoke(customer_id, has_api)

\* The direct call is made while no interaction has arrived.
EntryLastCall(cust_id) ==
    /\ cmd.pc = "idle"
    /\ LastCall(cust_id)

NextEntry ==
    \/ \E c \in CustomerIds, a \in BOOLEAN : EntryCmdInvoke(c, a)
    \/ \E c \in CustomerIds : \E y \in YieldsFor(c) : CmdFetch(y)
    \/ CmdReply
    \/ \E c \in CustomerIds : EntryLastCall(c)
    \/ \E u \in Payloads : LastSearchShim(u)
    \/ \E q \in LastSessionLists : LastSearch(q)
    \/ LastSearchRaises
    \/ \E o \in SheetOutcomes : LastResults(o)

\* ------------------------------------------------------- load_config
\* The settings of the model: the three that validate_config requires, a
\* string setting with a default and an integer setting with a default.
RequiredSettings == {"discord_token", "iracing_email", "iracing_password"}
Settings == RequiredSettings \cup {"log_level", "poll_interval_seconds"}

\* The value an environment variable holds when it is set, and the value
\* data/config.json holds for a key: both differ from each other and from
\* the default.  The interval is text in the environment and a number in
\* the file.
EnvValue(k) == IF k = "poll_interval_seconds" THEN Str(300) ELSE "env"
FileValue(k) == IF k = "poll_interval_seconds" THEN 60 ELSE "file"

\* The environments: any subset of the variables is set.
Environments == {[k \in S |-> EnvValue(k)] : S \in SUBSET Settings}

\* data/config.json: absent, not parseable, or an object holding any subset
\* of the settings and possibly a key that Config does not have.
ConfigFiles ==
    {[kind |-> "absent"], [kind |-> "malformed"]} \cup
    {[kind |-> "dict", items |-> [k \in S |-> FileValue(k)]] :
        S \in SUBSET (Settings \cup {"unknown_key"})}

\* os.getenv(name, default)
getenv(env, k, default) == IF k \in DOMAIN env THEN env[k] ELSE default

\* Lines 20-33: the Config built from the environment with the defaults.
EnvConfig(env) ==
    [k \in Settings |->
        CASE k \in RequiredSettings -> getenv(env, k, "")
          [] k = "log_level" -> getenv(env, k, "info")
          [] k = "poll_interval_seconds" -> ParseInt(getenv(env, k, Str(120)))]

\* validate_config raises ValueError when a required field is empty.
validate_config(config) == \A k \in RequiredSettings : config[k] # ""

\* hasattr(config, key): the fields of the Config dataclass.
hasattr(config, key) == key \in DOMAIN config

\* Lines 46-48: for key, value in file_config.items():
\*                  if hasattr(config, key): setattr(config, key, value)
MergeFile(config, items) ==
    [k \in DOMAIN config |->
        IF k \in DOMAIN items /\ hasattr(config, k) THEN items[k]
        ELSE config[k]]

\* load_config(): the Config it returns, or ValueError from validate_config.
\* A file that cannot be read or parsed leaves the Config as it is
\* (lines 50-51).
load_config(env, file) ==
    LET config == EnvConfig(env)
    IN IF ~validate_config(config) THEN Raised("ValueError")
       ELSE [kind |-> "Config",
             fields |-> IF file.kind = "dict"
                        THEN MergeFile(config, file.items)
                        ELSE config]

\* load_config is called once.
LoadConfig ==
    /\ conf.pc = "idle"
    /\ LET r == load_config(conf.env, conf.file)
       IN conf' = [conf EXCEPT !.pc = IF r.kind = "Config" THEN "returned"
                                      ELSE "raised",
                               !.config = r]
    /\ UNCHANGED engine
    /\ UNCHANGED <<postVars, fetchVars, pollVars, repoVars, tableVars,
                   cmdVars>>

InitConfig ==
    /\ PostAtRest /\ FetchAtRest /\ PollAtRest
    /\ RepoAtRest /\ TablesAtRest /\ CmdAtRest
    /\ \E env \in Environments, file \in ConfigFiles :
          conf = [pc |-> "idle", env |-> env, file |-> file, config |-> <<>>]
    /\ engine = NewEngine

NextConfig == LoadConfig

\* ------------------------------------------- PollingEngine.start / stop
\* The coroutine of start() is cut at its awaits: `await self._poll_once()`
\* (pc "cycle": the cycle is in progress, suspended at one of its own
\* awaits) and `await asyncio.sleep(self.interval)` (pc "sleep").  pc "new":
\* start() has been called or handed to asyncio.create_task (main.py:72) and
\* has not run its first statement yet.  self.task is assigned nowhere, so
\* stop() never cancels anything.

\* start() runs to its first await: self.running = True, the loop condition
\* holds and the first cycle begins.
EngineStart ==
    /\ engine.pc = "new"
    /\ engine' = [engine EXCEPT !.running = TRUE, !.pc = "cycle",
                                !.begun = @ + 1, !.active = @ + 1,
                                !.awaits = 0]
    /\ UNCHANGED conf
    /\ UNCHANGED <<postVars, fetchVars, pollVars, repoVars, tableVars,
                   cmdVars>>

\* The cycle in progress goes from one of its awaits to the next one: a
\* repository call or a fetch returned to it.
EngineCycleAwait ==
    /\ engine.pc = "cycle"
    /\ engine.awaits < MaxAwaits
    /\ engine' = [engine EXCEPT !.awaits = @ + 1]
    /\ UNCHANGED conf
    /\ UNCHANGED <<postVars, fetchVars, pollVars, repoVars, tableVars,
                   cmdVars>>

\* _poll_once returns; line 30 starts the interval sleep.
EngineCycleReturns ==
    /\ engine.pc = "cycle"
    /\ engine' = [engine EXCEPT !.pc = "sleep", !.via = "try",
                                !.active = @ - 1]
    /\ UNCHANGED conf
    /\ UNCHANGED <<postVars, fetchVars, pollVars, repoVars, tableVars,
                   cmdVars>>

\* Mutant of EngineCycleRaises: the `except` branch does not sleep, the
\* next iteration begins at once.
EngineCycleRaises_no_sleep ==
    /\ engine.pc = "cycle"
    /\ engine.running
    /\ engine.begun < MaxEngineCycles
    /\ engine' = [engine EXCEPT !.via = "except", !.begun = @ + 1,
                                !.awaits = 0]
    /\ UNCHANGED conf
    /\ UNCHANGED <<postVars, fetchVars, pollVars, repoVars, tableVars,
                   cmdVars>>

\* _poll_once raises; lines 31-34 log it and start the interval sleep.
EngineCycleRaises ==
    /\ engine.pc = "cycle"
    /\ engine' = [engine EXCEPT !.pc = "sleep", !.via = "except",
                                !.active = @ - 1]
    /\ UNCHANGED conf
    /\ UNCHANGED <<postVars, fetchVars, pollVars, repoVars, tableVars,
                   cmdVars>>

\* asyncio.sleep returns and `while self.running` is tested: the next cycle
\* begins, or start() returns.
EngineWake ==
    /\ engine.pc = "sleep"
    /\ engine.running => engine.begun < MaxEngineCycles
    /\ engine' = IF engine.running
                 THEN [engine EXCEPT !.pc = "cycle", !.begun = @ + 1,
                                     !.active = @ + 1, !.awaits = 0]
                 ELSE [engine EXCEPT !.pc = "returned"]
    /\ UNCHANGED conf
    /\ UNCHANGED <<postVars, fetchVars, pollVars, repoVars, tableVars,
                   cmdVars>>

\* stop(): self.running = False; self.task is None, nothing is cancelled.
\* stopAt keeps the number of cycles begun when stop() was first called.
EngineStop ==
    /\ engine.stops < MaxStops
    /\ engine' = [engine EXCEPT !.running = FALSE, !.stops = @ + 1,
                                !.stopAt = IF @ = -1 THEN engine.begun
                                           ELSE @]
    /\ UNCHANGED conf
    /\ UNCHANGED <<postVars, fetchVars, pollVars, repoVars, tableVars,
                   cmdVars>>

InitEngine ==
    /\ PostAtRest /\ FetchAtRest /\ PollAtRest
    /\ RepoAtRest /\ TablesAtRest /\ CmdAtRest
    /\ conf = NoConf
    /\ engine = [NewEngine EXCEPT !.pc = "new"]

NextEngine ==
    \/ EngineStart
    \/ EngineCycleAwait
    \/ EngineCycleReturns
    \/ EngineCycleRaises
    \/ EngineWake
    \/ EngineStop

\* ------------------------------------- untracking next to the poll cycle
\* The poll cycle's write of a driver's watermark, as one repository call
\* between the commands: await self.repo.set_last_poll_ts(cust_id, now).
TableSetLastPollTs(cust_id) ==
    /\ ops < MaxOps
    /\ ops' = ops + 1
    /\ poll_state' = set_last_poll_ts(poll_state, cust_id, StartTime + now_ts)
    /\ UNCHANGED <<tracked_rows, channel_rows, now_ts, lastOp, lastSet,
                   lastRemove>>
    /\ UNCHANGED <<tracked_drivers, clock, cycleKind, poll, built, wmBefore,
                   cycles, hist, slept>>
    /\ UNCHANGED <<postVars, fetchVars, repoVars, cmdVars, mainVars>>

\* The database holds watermarks and posted_results rows of earlier cycles,
\* for drivers tracked then; /track and /untrack commands follow.
InitUntrack ==
    /\ posted_results \in PostedBefore
    /\ channel_config = <<>>
    /\ records = <<>>
    /\ inv = [p \in Invokers |-> IdleInv]
    /\ sends = [t \in Subsessions \X Custs \X Guilds |-> 0]
    /\ calls = 0
    /\ crashes = 0
    /\ errors = 0
    /\ FetchAtRest
    /\ tracked_drivers = <<>>
    /\ poll_state \in UNION {[D -> {StaleWatermark}] : D \in SUBSET Custs}
    /\ clock = StartTime
    /\ cycleKind = "engine"
    /\ poll = [IdlePoll EXCEPT !.pc = "off"]
    /\ built = {}
    /\ wmBefore = <<>>
    /\ cycles = 0
    /\ hist = NoHist
    /\ slept = <<>>
    /\ RepoAtRest
    /\ TablesAtRest
    /\ CmdAtRest
    /\ MainAtRest

NextUntrack ==
    \/ \E c \in Custs, n \in DisplayNames : AddTrackedDriver(c, n)
    \/ \E c \in Custs : RemoveTrackedDriver(c)
    \/ \E c \in Custs : TableSetLastPollTs(c)
    \/ TableTick

vars == <<postVars, fetchVars, pollVars, repoVars, tableVars, cmdVars,
          mainVars>>

Init == InitPost /\ FetchAtRest /\ PollAtRest /\ OthersAtRest
Next == NextPost
Spec == Init /\ [][Next]_vars
SpecOverlap == Init /\ [][NextOverlap]_vars
InitFetchCall == InitFetch /\ PostAtRest /\ PollAtRest /\ OthersAtRest
SpecFetch == InitFetchCall /\ [][NextFetch]_vars
\* The event loop resumes a coroutine that can run: every GET is answered
\* or times out (ClientTimeout, api.py:173, 226), every asyncio.sleep ends.
SpecFetchLive == SpecFetch /\ WF_vars(NextFetch)
InitSemCalls == InitSem /\ PostAtRest /\ PollAtRest /\ OthersAtRest
SpecSem == InitSemCalls /\ [][NextSem]_vars
InitStall == InitSem /\ PostAtRest /\ PollAtRest /\ OthersAtRest
SpecStall == InitStall /\ [][NextStall]_vars
InitSlots == InitSem /\ PostAtRest /\ PollAtRest /\ OthersAtRest
\* The event loop resumes a coroutine that can run: every GET is answered
\* or times out, every login and sleep ends, and a waiter of the semaphore
\* is woken when a slot is free.
SpecSlots == InitSlots /\ [][NextSlots]_vars /\ WF_vars(NextSlots)
SpecPoll == InitPoll /\ [][NextPoll]_vars
InitRepo == PostAtRest /\ FetchAtRest /\ PollAtRest /\ OthersAtRest
SpecRepo == InitRepo /\ [][NextRepo]_vars
InitTables == PostAtRest /\ FetchAtRest /\ PollAtRest /\ OthersAtRest
SpecTables == InitTables /\ [][NextTables]_vars
SpecLast == InitLast /\ [][NextLast]_vars
SpecEmbed == InitEmbed /\ [][NextEmbed]_vars
SpecCmd == InitCmd /\ [][NextCmd]_vars
SpecEntry == InitEntry /\ [][NextEntry]_vars
SpecConfig == InitConfig /\ [][NextConfig]_vars
SpecEngine == InitEngine /\ [][NextEngine]_vars
SpecUntrack == InitUntrack /\ [][NextUntrack]_vars

\* ------------------------------------------------------------ claims
AtMostOnce == \A t \in DOMAIN sends : sends[t] <= 1

C2_NoResendAfterCrash == errors = 0 => AtMostOnce

\* C3: (the claim as stated) two invocations on the same records whose
\* awaits interleave still send every triple at most once.
C3_AtMostOnceInterleaved ==
    (crashes = 0 /\ errors = 0) => \A t \in DOMAIN sends : sends[t] < 2

\* C5: against an upstream that answers 429 to every link request the call
\* never returns, never starts a sixth attempt or sends a sixth link request,
\* and when it ends it has raised after exactly 5 attempts.
C5_RetryBound ==
    stats[1].seen \subseteq {"rate"} =>
        /\ stats[1].attempts <= 5
        /\ stats[1].linkReqs <= 5
        /\ task[1].pc # "returned"
        /\ Terminal(1) => stats[1].attempts = 5 /\ stats[1].linkReqs = 5

\* C5 witness: the call has raised and every answer it got was a 429.
C5_Witness ==
    /\ task[1].pc = "raised"
    /\ stats[1].seen = {"rate"}
    /\ stats[1].linkReqs = 5

\* C6: (the claim as stated) a call that only ever saw 401/403 ends with one
\* re-login, two requests in all and AuthError.
C6_OneReloginThenAuthError ==
    (impl = "api" /\ Terminal(1) /\ stats[1].seen = {"auth"}) =>
        /\ stats[1].logins = 1
        /\ stats[1].linkReqs + stats[1].dlReqs = 2
        /\ stats[1].result = "AuthError"

\* C7: (the claim as stated) once a request was answered with a status that
\* is not 200, 401/403, 429 or 5xx the call has failed: no sleep, no retry.
C7_OtherStatusFailsAtOnce ==
    "other" \in stats[1].seen =>
        /\ task[1].pc = "raised"
        /\ stats[1].seen = {"other"} => stats[1].attempts = 1 /\ stats[1].sleeps = 0

\* C8: (the claim as stated) once a 200 answer was malformed (not JSON, or a
\* link response without 'link') the call has failed and is not retried.
C8_MalformedFailsAtOnce ==
    (impl = "api" /\ stats[1].seen \cap {"badjson", "nolink"} # {}) =>
        task[1].pc = "raised"

\* C9: at most 4 data-API requests of one client are in flight at any
\* instant, whatever the number of concurrent callers.
C9_AtMostFourInFlight ==
    /\ inflight <= 4
    /\ Cardinality({t \in FetchTasks : task[t].pc = "wait"}) <= 4

\* C9 witness: four requests are in flight and a fifth caller is waiting for
\* a slot.
C9_Witness ==
    /\ inflight = 4
    /\ \E t \in FetchTasks : task[t].pc = "acquire"

\* C4: (the claim as stated) when a cycle of the running poller is over, the
\* post step has been invoked on what the find step built: every FinishRecord
\* built in the cycle was sent to every guild with a configured channel for
\* which the triple was not marked posted.
C4_CyclePostsWhatItBuilt ==
    (cycleKind = "engine" /\ poll.pc = "done") =>
        /\ Len(poll.drivers) > 0 => calls >= 1
        /\ \A r \in built : \A g \in Guilds :
              get_channel_for_guild(channel_config, g) # 0 =>
                  \/ was_posted(posted_results, r[1], r[2], g)
                  \/ sends[<<r[1], r[2], g>>] >= 1

\* C10: when a poll cycle is over, the watermark of every driver that had one
\* when the cycle began is still there and is not smaller.
C10_WatermarkMonotone ==
    poll.pc = "done" =>
        \A c \in DOMAIN wmBefore :
            /\ c \in DOMAIN poll_state
            /\ get_last_poll_ts(poll_state, c) >= get_last_poll_ts(wmBefore, c)

\* C10 witness: the second cycle of the engine is over and has moved forward
\* a watermark that the first cycle had written.
C10_Witness ==
    /\ cycleKind = "engine" /\ poll.pc = "done" /\ cycles = 2
    /\ \E c \in DOMAIN wmBefore :
          /\ wmBefore[c] >= StartTime
          /\ poll_state[c] > wmBefore[c]

\* C11: (the claim as stated) when a poll cycle with tracked drivers is over,
\* the watermark of every tracked driver has been written exactly once in
\* the cycle and equals the cycle's now, also after a failed search, a
\* failed session fetch or a search that found nothing.
C11_WatermarkWrittenOnce ==
    poll.pc = "done" =>
        \A i \in DOMAIN poll.drivers :
            /\ hist.writes[poll.drivers[i]] = 1
            /\ get_last_poll_ts(poll_state, poll.drivers[i]) = poll.now

\* C12: (the claim as stated) when the find step is over, every tracked
\* driver has been searched for and get_subsession_results has been called
\* for every session a search returned, whatever failed for another session
\* or another driver.
C12_FailuresAreIsolated ==
    poll.pc = "done" =>
        /\ \A i \in DOMAIN poll.drivers :
              \E q \in hist.searches : q[1] = poll.drivers[i]
        /\ \A f \in hist.found :
              \E o \in {"row", "norow", "raised"} :
                  <<f[1], f[2], o>> \in hist.fetched

\* C13: when an invocation in which nothing but sends raised has returned,
\* every record of the list was sent to every guild with a channel, except
\* for the (record, guild) pairs whose own send raised.
C13_SendFailureIsIsolated ==
    (/\ inv[1].pc = "done" /\ inv[1].callNo = 1 /\ crashes = 0
     /\ errors = Cardinality(inv[1].failed)) =>
        \A i \in DOMAIN records : \A g \in Guilds :
            get_channel_for_guild(channel_config, g) # 0 =>
                \/ <<records[i][1], records[i][2], g>> \in inv[1].failed
                \/ sends[<<records[i][1], records[i][2], g>>] >= 1

\* C13 witness: the send of the first record to guild 1 raised; the same
\* record went to guild 2 and the second record went to both guilds.
C13_Witness ==
    /\ inv[1].pc = "done" /\ inv[1].callNo = 1 /\ crashes = 0
    /\ records = <<(<<1, 1>>), (<<2, 1>>)>>
    /\ inv[1].failed = {<<1, 1, 1>>}
    /\ sends[<<1, 1, 1>>] = 0
    /\ sends[<<1, 1, 2>>] = 1
    /\ sends[<<2, 1, 1>>] = 1
    /\ sends[<<2, 1, 2>>] = 1

\* C14: in PollingEngine.start every cycle, returned or raised, is followed
\* by exactly one asyncio.sleep(self.interval) before the next cycle begins,
\* and a cycle that raised does not end the loop: its sleep is the next step.
C14_SleepAfterEveryCycle ==
    cycleKind = "engine" =>
        /\ poll.pc = "sleep" => Len(slept) = cycles
        /\ (poll.pc # "sleep" /\ cycles > 0) => Len(slept) = cycles - 1
        /\ poll.pc \in {"done", "raised"} => ENABLED PollSleep

\* C14 witness: the first cycle raised, the loop slept in its `except`
\* branch and the second cycle is running.
C14_Witness ==
    /\ cycleKind = "engine"
    /\ cycles = 2
    /\ slept = <<"except">>
    /\ poll.pc = "get_wm"

\* C15: after mark_posted(k), was_posted(k) is true; was_posted(k') is false
\* for every triple k' that was never marked; and a triple marked once or
\* several times has exactly one row in the table.  The set of rows that
\* stands for the table elsewhere holds exactly the table's primary keys.
C15_MarkThenWasPosted ==
    /\ Keys(db_rows) = posted_results
    /\ \A s \in Subsessions, c \in Custs, g \in Guilds :
          /\ was_posted(posted_results, s, c, g) <=> <<s, c, g>> \in marked
          /\ <<s, c, g>> \in marked =>
                Cardinality({i \in DOMAIN db_rows :
                    PrimaryKey(db_rows[i]) = <<s, c, Str(g)>>}) = 1

\* C15 witness: three calls on two triples, one of them marked twice.
C15_Witness ==
    /\ marks = 3
    /\ marked = {<<1, 1, 1>>, <<1, 1, 2>>}
    /\ Len(db_rows) = 2
    /\ db_rows[2].posted_at = 3 /\ db_rows[2].guild_id = Str(1)

\* C16: a result sheet without a row of the tracked driver yields no
\* FinishRecord for that (session, driver) and raises nothing: when the
\* cycle is over, every session found for a driver none of whose fetches
\* raised has been fetched.
C16_MissingRowIsSkipped ==
    /\ \A f \in hist.fetched :
          f[3] = "norow" => <<f[1], f[2]>> \notin built
    /\ poll.pc = "done" =>
          \A c \in Custs :
              (\A f \in hist.fetched : f[2] = c => f[3] # "raised") =>
                  \A p \in hist.found : p[2] = c =>
                      \E o \in {"row", "norow"} : <<p[1], c, o>> \in hist.fetched

\* C16 witness: the sheet of session 1 had no row of driver 1, and the next
\* session, 2, was fetched and gave the only record of the cycle.
C16_Witness ==
    /\ poll.pc = "done"
    /\ poll.drivers = <<1>>
    /\ poll.sessions = <<1, 2>>
    /\ hist.fetched = {<<1, 1, "norow">>, <<2, 1, "row">>}
    /\ built = {<<2, 1>>}

\* C17: every search_recent_sessions call of a cycle has the cycle's now as
\* window end, and as window start the driver's stored watermark, or now
\* minus 172800 s when the repository holds none.
C17_SearchWindow ==
    \A q \in hist.searches :
        /\ q[3] = poll.now
        /\ q[2] = IF q[1] \in DOMAIN wmBefore THEN wmBefore[q[1]]
                  ELSE poll.now - 172800

\* C17 witness: one cycle searched for a driver without a watermark and for
\* a driver with one.
C17_Witness ==
    \E q, r \in hist.searches :
        /\ q[1] \notin DOMAIN wmBefore /\ q[2] = q[3] - 172800
        /\ r[1] \in DOMAIN wmBefore /\ r[2] = wmBefore[r[1]]

\* C18: (the claim as stated) find_new_finishes_for_tracked returns no
\* FinishRecord for a (subsession_id, cust_id) that the repository reports
\* as posted whatever guild is asked.
C18_FindSkipsPosted ==
    cycleKind = "service" =>
        \A r \in built :
            \E g \in Guilds : ~was_posted(posted_results, r[1], r[2], g)

\* C19: a call that saw nothing but 429, 5xx and network errors besides
\* well-formed answers fails only with its fifth attempt; when an attempt
\* succeeds it returns the downloaded payload, after at least two attempts
\* if one had failed.
C19_RetryThenSuccess ==
    stats[1].seen \subseteq {"ok", "rate", "server", "neterr"} =>
        /\ task[1].pc = "raised" => stats[1].attempts = 5
        /\ task[1].pc = "returned" =>
              /\ stats[1].result = "payload"
              /\ stats[1].attempts <= 5
              /\ stats[1].seen # {"ok"} => stats[1].attempts >= 2

\* C19 witness: the first attempt got 429, the second a 5xx, the third a
\* network error and the fourth succeeded.
C19_Witness ==
    /\ task[1].pc = "returned"
    /\ stats[1].seen = {"ok", "rate", "server", "neterr"}
    /\ stats[1].attempts = 4
    /\ stats[1].result = "payload"

\* C20: the count an invocation returns is the number of rows it added to
\* posted_results, each of them for a triple that was sent.
C20_PostedCountIsPostsCreated ==
    inv[1].pc = "done" =>
        /\ inv[1].posted_count = Cardinality(posted_results \ inv[1].before)
        /\ \A row \in posted_results \ inv[1].before :
              sends[<<row[1], row[2], ParseInt(row[3])>>] >= 1

\* C20 witness: one record and one configured guild; the first invocation
\* returned 1 and the second, finding the triple posted, returned 0.
C20_Witness ==
    /\ Len(records) = 1
    /\ Cardinality(DOMAIN channel_config) = 1
    /\ inv[1].pc = "done" /\ inv[1].callNo = 2
    /\ inv[1].posted_count = 0
    /\ Cardinality(inv[1].before) = 1
    /\ errors = 0 /\ crashes = 0

\* C21: after any sequence of add_tracked_driver / remove_tracked_driver
\* calls, list_tracked holds exactly the cust_ids whose most recent call was
\* an add, each of them once.
C21_TrackedIsLastAdded ==
    LET L == list_tracked(tracked_rows)
    IN \A c \in Custs :
          Cardinality({i \in DOMAIN L : L[i][1] = c})
              = IF lastOp[c] = "add" THEN 1 ELSE 0

\* A driver added (again) and another one removed, in three calls or more.
C21_Witness ==
    /\ ops >= 3
    /\ channel_rows = <<>>
    /\ lastOp[1] = "add"
    /\ lastOp[2] = "remove"
    /\ Len(list_tracked(tracked_rows)) = 1

\* C22: after any sequence of set_channel_for_guild calls a guild has at
\* most one row, get_channel_for_guild returns the channel of the most
\* recent call for that guild and None for a guild never configured; a call
\* for one guild changes the answer for no other guild.
C22_ChannelIsLastSet ==
    \A g \in Guilds :
       /\ Cardinality({i \in DOMAIN channel_rows :
                          channel_rows[i].guild_id = Str(g)}) <= 1
       /\ get_channel_for_guild_rows(channel_rows, g) = lastSet[g]

\* Three calls or more, a guild set again to another channel, the other
\* guild keeping its own.
C22_Witness ==
    /\ ops >= 3
    /\ tracked_rows = <<>>
    /\ \A c \in Custs : lastOp[c] = "none"
    /\ lastSet[1] = ChannelOf(2)
    /\ lastSet[2] = ChannelOf(2)
    /\ channel_rows[1].guild_id = Str(2)

\* C23: no step of fetch_last_official_result changes posted_results or
\* poll_state, whatever the call returns or raises.
C23_LastResultFrame ==
    [][last' # last => UNCHANGED <<posted_results, poll_state>>]_vars

\* The call returned a record while the poller had rows in posted_results.
C23_Witness ==
    /\ last.pc = "returned"
    /\ last.result.kind = "FinishRecord"
    /\ posted_results # {}
    /\ marks > 0

\* C29: api.py's search_recent_sessions returns the rows of the
\* stats/member_recent_races payload, truncated to a given limit, and
\* fetch_last_official_result can await what it returns.
C29_ShimReturnsRows ==
    (impl = "api" /\ last.upstream.kind # "none") =>
        /\ last.result.kind # "raised"
        /\ last.sessions = RowsOfPayload(last.upstream)
        /\ \A n \in 0..MaxSessions :
              search_recent_sessions(last.upstream, n)
                  = Truncated(RowsOfPayload(last.upstream), n)

\* C30: fetch_last_official_result returns the record of the last session of
\* the search result that is official and whose sheet has a row of the
\* driver, skipping the sessions whose fetch raised; it returns None when
\* no session qualifies; a record it returns has official = TRUE.
C30_LastOfficialWithRow ==
    (last.pc = "returned" /\ last.cust_id > 0) =>
        LET q == last.sessions
            Seen(i) == i \in DOMAIN last.scanned
            Good(i) == /\ Seen(i)
                       /\ last.scanned[i] = "row"
                       /\ q[i].official
        IN IF last.result.kind = "FinishRecord"
           THEN /\ last.result.official
                /\ \E k \in DOMAIN q :
                      /\ Good(k)
                      /\ last.result = FinishRecordOf(q[k], last.cust_id)
                      /\ \A j \in DOMAIN q : j > k => Seen(j) /\ ~Good(j)
           ELSE /\ last.result = NoneResult
                /\ \A j \in DOMAIN q : Seen(j) /\ ~Good(j)

\* The last session's fetch raised, the one before is official with a row of
\* the driver, and its record was returned.
C30_Witness ==
    /\ last.pc = "returned"
    /\ Len(last.sessions) = 2
    /\ last.scanned = (2 :> "raised") @@ (1 :> "row")
    /\ last.result.kind = "FinishRecord"
    /\ last.result.subsession_id = last.sessions[1].subsession_id

C25_LastraceSendsEmbed ==
    (/\ cmd.pc = "done"
     /\ cmd.customer_id > 0
     /\ cmd.has_api
     /\ cmd.result.kind = "coroutine"
     /\ cmd.result.yields.kind = "FinishRecord")
    => /\ cmd.defers = 1
       /\ Len(cmd.followups) = 1
       /\ cmd.followups[1] = build_race_result_embed(cmd.result.yields)

\* C26: every renderer colours finish_pos <= 3 green, 4..10 orange and
\* anything above 10 red, so two renderers give one finish_pos one colour.
C26_ColourMapping ==
    /\ \A r \in DOMAIN rendered :
          rendered[r] # <<>> =>
             LET fp == rendered[r][1]
                 colour == rendered[r][2]
             IN /\ fp <= 3 => colour = "green"
                /\ (4 <= fp /\ fp <= 10) => colour = "orange"
                /\ fp > 10 => colour = "red"
    /\ \A r1 \in DOMAIN rendered, r2 \in DOMAIN rendered :
          (rendered[r1] # <<>> /\ rendered[r2] # <<>>
              /\ rendered[r1][1] = rendered[r2][1])
          => rendered[r1][2] = rendered[r2][2]

\* The three renderers have each rendered position 10.
C26_Witness ==
    \A r \in DOMAIN rendered : rendered[r] = <<10, "orange">>

C28_BackoffDelays ==
    \A t \in DOMAIN stats :
       LET d == stats[t].delays
       IN /\ \A k \in DOMAIN d :
                /\ d[k] >= base_delay * (2 ^ (k - 1))
                /\ d[k] <= max_delay
          /\ Len(d) <= max_retries - 1

\* C31: for customer_id <= 0, /lastrace sends the invalid-id message as its
\* only follow-up and never calls fetch_last_official_result, and a direct
\* call of fetch_last_official_result returns None; neither makes a request
\* to the iRacing API.
C31_InvalidIdMakesNoRequest ==
    /\ (cmd.pc \in {"thread", "done"} /\ cmd.customer_id <= 0) =>
          /\ cmd.pc = "done"
          /\ cmd.followups = <<Text("Invalid customer_id")>>
          /\ cmd.result = NoResult
    /\ (last.pc \notin {"off", "idle"} /\ last.cust_id <= 0) =>
          /\ last.pc = "returned"
          /\ last.result = NoneResult
          /\ last.requests = 0

\* /lastrace with customer_id 0 has answered, on a bot that has the client.
C31_Witness ==
    /\ cmd.pc = "done"
    /\ cmd.customer_id = 0
    /\ cmd.has_api
    /\ cmd.defers = 1
    /\ Len(cmd.followups) = 1

\* C32: remove_tracked_driver(cust_id) returns TRUE exactly when cust_id was
\* tracked right before the call, and the driver is not tracked after it; a
\* call that returns FALSE changes nothing.
C32_RemoveReturnsWasTracked ==
    [][lastRemove' # lastRemove =>
          LET c == lastRemove'.cust_id
              Tracked(tbl) == {list_tracked(tbl)[i][1] :
                                  i \in DOMAIN list_tracked(tbl)}
          IN /\ lastRemove'.returned = (c \in Tracked(tracked_rows))
             /\ c \notin Tracked(tracked_rows')
             /\ ~lastRemove'.returned => tracked_rows' = tracked_rows
      ]_vars

\* A call removed a tracked driver and returned TRUE, and a later call for
\* the other driver, never tracked, returned FALSE.
C32_Witness ==
    /\ lastRemove.call >= 3
    /\ lastRemove.cust_id = 2
    /\ ~lastRemove.returned
    /\ lastOp[1] = "remove"
    /\ tracked_rows = <<>>
    /\ channel_rows = <<>>

\* C33: for every setting given both by an environment variable and by
\* data/config.json, the Config that load_config returns holds the
\* environment's value.
C33_EnvironmentTakesPrecedence ==
    conf.pc = "returned" =>
        \A k \in Settings :
            (k \in DOMAIN conf.env /\ conf.file.kind = "dict"
                /\ k \in DOMAIN conf.file.items)
            => conf.config.fields[k] = EnvConfig(conf.env)[k]

\* C34: whatever the upstream answers, a call of _get_json_via_download
\* makes at most 5 attempts, sends at most two link GETs and two download
\* GETs in each attempt, and ends by returning or raising.
C34_FetchTerminates ==
    /\ [](/\ stats[1].attempts <= 5
          /\ stats[1].attLink <= 2
          /\ stats[1].attDl <= 2)
    /\ (task[1].pc # "idle" ~> Terminal(1))

\* The fifth attempt sent its download GET twice around a re-login and the
\* call raised.
C34_Witness ==
    /\ task[1].pc = "raised"
    /\ stats[1].attempts = 5
    /\ stats[1].attDl = 2
    /\ stats[1].logins >= 1

\* C35: within one start() loop the cycles do not overlap: a cycle begins
\* only when no cycle is in progress, as the first one or at the end of the
\* interval sleep that followed the previous one, however many awaits the
\* previous one took.
C35_CyclesDoNotOverlap ==
    [][engine'.begun # engine.begun =>
          /\ engine.active = 0
          /\ engine.pc \in {"new", "sleep"}
          /\ engine.pc = "new" <=> engine.begun = 0
          /\ engine'.active = 1
      ]_vars

\* The third cycle is in progress after a cycle that raised.
C35_Witness ==
    /\ engine.pc = "cycle"
    /\ engine.begun = 3
    /\ engine.via = "except"
    /\ engine.active = 1

\* C36: once stop() has been called no new poll cycle begins, whenever it
\* is called relative to start().
C36_NoCycleAfterStop ==
    engine.stopAt # -1 => engine.begun = engine.stopAt

\* C37: remove_tracked_driver changes only the tracked_drivers table: every
\* driver's watermark, the posted_results rows and the channel_config rows
\* are the same after the call, and adding the driver again changes none of
\* them either, so the driver is polled from the old watermark and every
\* triple marked before is still marked.
C37_UntrackKeepsPollState ==
    [][(lastRemove' # lastRemove \/ tracked_rows' # tracked_rows) =>
          /\ \A c \in Custs :
                get_last_poll_ts(poll_state', c) = get_last_poll_ts(poll_state, c)
          /\ \A s \in Subsessions, c \in Custs, g \in Guilds :
                was_posted(posted_results', s, c, g)
                   = was_posted(posted_results, s, c, g)
          /\ channel_rows' = channel_rows
          /\ db_rows' = db_rows
      ]_vars

\* Driver 1, with a watermark written by a cycle and a result marked as
\* posted, was untracked and is tracked again.
C37_Witness ==
    /\ lastRemove.cust_id = 1
    /\ lastRemove.returned
    /\ lastOp[1] = "add"
    /\ \E i \in DOMAIN tracked_rows : tracked_rows[i].cust_id = 1
    /\ get_last_poll_ts(poll_state, 1) = StartTime + 1
    /\ was_posted(posted_results, 1, 1, 1)

\* C38: the semaphore's slots are conserved: the slots held by callers and
\* the free slots add up to 4, a call that has returned or raised holds no
\* slot, and every caller waiting for a slot gets one.
C38_SlotsConserved ==
    /\ [](/\ sem + Cardinality({t \in FetchTasks : task[t].holds}) = 4
          /\ sem >= 0
          /\ \A t \in FetchTasks : Terminal(t) => ~task[t].holds)
    /\ \A t \in FetchTasks : (task[t].pc = "acquire") ~> task[t].holds

\* A call used up its five attempts and raised, and the last caller, who
\* could only start once a slot was given back, holds a slot.
C38_Witness ==
    /\ faults = 5
    /\ \E t \in FetchTasks : task[t].pc = "raised" /\ task[t].attempt = 4
    /\ Cardinality({t \in FetchTasks : Terminal(t)}) = 1
    /\ task[NumFetchTasks].holds
    /\ sem = 0

\* C39: the search windows of successive cycles leave no gap: a search for a
\* driver whose watermark an earlier cycle wrote starts at the `now` of the
\* latest such cycle (which was that cycle's window end), and that is the
\* watermark the repository holds until the cycle at hand writes its own.
C39_NoGapBetweenWindows ==
    \A q \in hist.searches :
        (hist.ends[q[1]] # 0 /\ hist.writes[q[1]] = 0) =>
            /\ q[2] = hist.ends[q[1]]
            /\ get_last_poll_ts(poll_state, q[1]) = hist.ends[q[1]]
            /\ q[2] <= q[3]

\* The second cycle, begun a second after the first, searches from the
\* first cycle's now for a driver whose watermark the first cycle wrote.
C39_Witness ==
    /\ cycles = 2
    /\ \E q \in hist.searches :
          /\ hist.writes[q[1]] = 0
          /\ hist.ends[q[1]] = StartTime
          /\ q[2] = StartTime
          /\ q[3] = StartTime + 1
====
